---- MODULE Spec2Model ----
(***************************************************************************)
(* A model of try.py: the Instagram affirmation sender.                    *)
(*                                                                         *)
(* Python strings are modelled as sequences of one-character strings, so   *)
(* that tokenising, case folding and filtering are computed character by   *)
(* character as the code computes them.                                    *)
(***************************************************************************)
EXTENDS Integers, Sequences, FiniteSets, TLC

VARIABLES
    call,            \* the function a caller is in: "idle" or the name of the block that ran
    text,            \* the text argument of the call (the affirmation)
    filtered_words,  \* the list filtered_words the key-word block built
    key_words,       \* the list key_words the key-word block built
    theme,           \* the theme argument of a fallback lookup
    returned,        \* what the call gave: the string of a fallback lookup, the result of
                     \* generate_image_with_imagen
    image_run,       \* how the stages of a call of generate_image_with_imagen went
    session_state,   \* st.session_state: a record, the attributes set so far its fields
    shown,           \* the st.success / st.warning / st.error messages of the last script run
    request,         \* the last generation request: its theme and what the generators did
    sending,         \* the sending the last script run started: the method, its arguments
                     \* and what it composes for every recipient
    step,            \* where the Selenium sender is in the delivery of a message to a recipient
    affirmation_text, \* the sender's argument affirmation
    image_message,   \* the sender's string image_message
    message_parts,   \* the sender's list message_parts
    part_index,      \* the index of the part the loop over message_parts is at
    send_method,     \* the index of the send method the loop over send_methods is at
    message_sent,    \* the sender's flag message_sent
    delivery,        \* what the browser was made to do for the recipient so far, in order
    loop_i,          \* the sender's variable i: the loops over users_to_message, over
                     \* navigation_methods and over send_methods all assign it
    users_to_message, \* the sender's list users_to_message, every entry stripped
    user_index,      \* how many entries of users_to_message the loop has left behind
    navigation_method, \* how many of the navigation_methods were tried for the recipient
    verified,        \* which call of verify_dm_conversation returned True for the recipient
    message_input,   \* how the recipient's message input was located
    report,          \* what was done for every entry of users_to_message left behind
    quits,           \* the calls of driver.quit() so far and how each ended
    sender_result,   \* what the sender returned: (success, message)
    session,         \* whether Instagram was opened and the login went through
    browsers,        \* the browsers the sender tried to initialise, in order, and how each went
    dialog_events,   \* what every turn of the loop over the dialogs after the login found,
                     \* until the loop over users_to_message starts
    frames           \* the call frame of every concurrent caller: the block it is in, the
                     \* statement it is at, its arguments and its local variables

pureVars == <<call, text, filtered_words, key_words, theme, returned, image_run>>

uiVars == <<session_state, shown, request, sending>>

runVars == <<users_to_message, user_index, navigation_method, verified, message_input,
             report, quits, sender_result, session>>

setupVars == <<browsers, dialog_events>>

sendVars == <<step, affirmation_text, image_message, message_parts, part_index, send_method,
              message_sent, delivery, loop_i, runVars, setupVars>>

callerVars == <<frames>>

vars == <<pureVars, uiVars, sendVars, callerVars>>

(***************************************************************************)
(* Characters.                                                             *)
(***************************************************************************)
UpperChars == <<"A","B","C","D","E","F","G","H","I","J","K","L","M",
                "N","O","P","Q","R","S","T","U","V","W","X","Y","Z">>

LowerChars == <<"a","b","c","d","e","f","g","h","i","j","k","l","m",
                "n","o","p","q","r","s","t","u","v","w","x","y","z">>

DigitChars == {"0","1","2","3","4","5","6","7","8","9"}

Range(s) == {s[i] : i \in DOMAIN s}

Letters == Range(UpperChars) \cup Range(LowerChars)

\* str.lower, as a table over the characters of the model
LowerOf == [c \in Range(UpperChars) |->
               LowerChars[CHOOSE i \in DOMAIN UpperChars : UpperChars[i] = c]]

\* str.isalpha, on the characters of the model
IsAlpha(c) == c \in Letters

\* str.isalnum
IsAlnum(c) == IsAlpha(c) \/ c \in DigitChars

\* str.isspace
IsSpace(c) == c \in {" ", "\t", "\n"}

\* the regular expression class \w: letters, digits and the underscore
IsWordChar(c) == IsAlnum(c) \/ c = "_"

\* str.lower on one character
LowerChar(c) == IF c \in DOMAIN LowerOf THEN LowerOf[c] ELSE c

\* str.lower
lower(s) == [i \in DOMAIN s |-> LowerChar(s[i])]

(***************************************************************************)
(* The key-word block of generate_image and generate_image_with_imagen.    *)
(***************************************************************************)
\* len(word) > 3
MinWordLen == 3

\* most_common(2)
KeyWordCount == 2

stop_words_image ==
    {<<"a">>, <<"a","n">>, <<"t","h","e">>, <<"a","n","d">>, <<"o","r">>, <<"b","u","t">>, <<"i","s">>, <<"a",
      "r","e">>, <<"w","a","s">>, <<"w","e","r","e">>, <<"b","e">>, <<"b","e","e","n">>, <<"b","e","i","n","g">>,
       <<"h","a","v","e">>, <<"h","a","s">>, <<"h","a","d">>, <<"d","o">>, <<"d","o","e","s">>, <<"d","i","d">>,
       <<"t","o">>, <<"f","r","o","m">>, <<"i","n">>, <<"o","u","t">>, <<"o","n">>, <<"o","f","f">>, <<"o","v",
      "e","r">>, <<"u","n","d","e","r">>, <<"a","g","a","i","n">>, <<"f","u","r","t","h","e","r">>, <<"t","h",
      "e","n">>, <<"o","n","c","e">>, <<"h","e","r","e">>, <<"t","h","e","r","e">>, <<"w","h","e","n">>, <<"w",
      "h","e","r","e">>, <<"w","h","y">>, <<"h","o","w">>, <<"a","l","l">>, <<"a","n","y">>, <<"b","o","t","h">>,
       <<"e","a","c","h">>, <<"f","e","w">>, <<"m","o","r","e">>, <<"m","o","s","t">>, <<"o","t","h","e","r">>,
       <<"s","o","m","e">>, <<"s","u","c","h">>, <<"n","o">>, <<"n","o","r">>, <<"n","o","t">>, <<"o","n","l",
      "y">>, <<"o","w","n">>, <<"s","a","m","e">>, <<"s","o">>, <<"t","h","a","n">>, <<"t","o","o">>, <<"v",
      "e","r","y">>, <<"c","a","n">>, <<"w","i","l","l">>, <<"j","u","s","t">>, <<"s","h","o","u","l","d">>,
      <<"n","o","w">>, <<"o","f">>, <<"w","i","t","h">>, <<"f","o","r">>, <<"t","h","a","t">>, <<"t","h","i",
      "s">>, <<"t","h","e","s","e">>, <<"t","h","o","s","e">>, <<"y","o","u","r">>, <<"y","o","u">>, <<"y","o",
      "u","r","s">>}

\* the stop words of generate_image_with_imagen without 'your'
stop_words_imagen_NoYour == stop_words_image \ { <<"y","o","u","r">> }

stop_words_imagen ==
    {<<"a">>, <<"a","n">>, <<"t","h","e">>, <<"a","n","d">>, <<"o","r">>, <<"b","u","t">>, <<"i","s">>, <<"a",
      "r","e">>, <<"w","a","s">>, <<"w","e","r","e">>, <<"b","e">>, <<"b","e","e","n">>, <<"b","e","i","n","g">>,
       <<"h","a","v","e">>, <<"h","a","s">>, <<"h","a","d">>, <<"d","o">>, <<"d","o","e","s">>, <<"d","i","d">>,
       <<"t","o">>, <<"f","r","o","m">>, <<"i","n">>, <<"o","u","t">>, <<"o","n">>, <<"o","f","f">>, <<"o","v",
      "e","r">>, <<"u","n","d","e","r">>, <<"a","g","a","i","n">>, <<"f","u","r","t","h","e","r">>, <<"t","h",
      "e","n">>, <<"o","n","c","e">>, <<"h","e","r","e">>, <<"t","h","e","r","e">>, <<"w","h","e","n">>, <<"w",
      "h","e","r","e">>, <<"w","h","y">>, <<"h","o","w">>, <<"a","l","l">>, <<"a","n","y">>, <<"b","o","t","h">>,
       <<"e","a","c","h">>, <<"f","e","w">>, <<"m","o","r","e">>, <<"m","o","s","t">>, <<"o","t","h","e","r">>,
       <<"s","o","m","e">>, <<"s","u","c","h">>, <<"n","o">>, <<"n","o","r">>, <<"n","o","t">>, <<"o","n","l",
      "y">>, <<"o","w","n">>, <<"s","a","m","e">>, <<"s","o">>, <<"t","h","a","n">>, <<"t","o","o">>, <<"v",
      "e","r","y">>, <<"c","a","n">>, <<"w","i","l","l">>, <<"j","u","s","t">>, <<"s","h","o","u","l","d">>,
      <<"n","o","w">>, <<"o","f">>, <<"w","i","t","h">>, <<"f","o","r">>, <<"t","h","a","t">>, <<"t","h","i",
      "s">>, <<"t","h","e","s","e">>, <<"t","h","o","s","e">>, <<"y","o","u","r">>, <<"y","o","u">>, <<"y","o",
      "u","r","s">>}

\* re.findall(r'\b\w+\b', s): the maximal runs of word characters, in order
RECURSIVE FindAllFrom(_, _, _, _)
FindAllFrom(s, i, cur, acc) ==
    IF i > Len(s)
    THEN IF cur = <<>> THEN acc ELSE Append(acc, cur)
    ELSE IF IsWordChar(s[i])
         THEN FindAllFrom(s, i + 1, Append(cur, s[i]), acc)
         ELSE FindAllFrom(s, i + 1, <<>>, IF cur = <<>> THEN acc ELSE Append(acc, cur))

findall_words(s) == FindAllFrom(s, 1, <<>>, <<>>)

\* FilterWords without the length test
RECURSIVE FilterWords_NoLength(_, _)
FilterWords_NoLength(words, stop_words) ==
    IF words = <<>> THEN <<>>
    ELSE LET word == Head(words)
             rest == FilterWords_NoLength(Tail(words), stop_words)
         IN  IF word \notin stop_words THEN <<word>> \o rest ELSE rest

\* FilterWords without the stop-word test
RECURSIVE FilterWords_NoStop(_, _)
FilterWords_NoStop(words, stop_words) ==
    IF words = <<>> THEN <<>>
    ELSE LET word == Head(words)
             rest == FilterWords_NoStop(Tail(words), stop_words)
         IN  IF Len(word) > MinWordLen THEN <<word>> \o rest ELSE rest

\* [word for word in words if word not in stop_words and len(word) > 3]
RECURSIVE FilterWords(_, _)
FilterWords(words, stop_words) ==
    IF words = <<>> THEN <<>>
    ELSE LET word == Head(words)
             rest == FilterWords(Tail(words), stop_words)
         IN  IF word \notin stop_words /\ Len(word) > MinWordLen THEN <<word>> \o rest ELSE rest

\* the number of occurrences of w in ws: the value Counter(ws)[w]
Count(w, ws) == Cardinality({i \in DOMAIN ws : ws[i] = w})

\* the keys of Counter(ws), in insertion order: each word at its first occurrence
RECURSIVE CounterKeys(_, _)
CounterKeys(ws, seen) ==
    IF ws = <<>> THEN <<>>
    ELSE IF Head(ws) \in seen
         THEN CounterKeys(Tail(ws), seen)
         ELSE <<Head(ws)>> \o CounterKeys(Tail(ws), seen \cup {Head(ws)})

\* NextLargest taking, among equal counts, the key met last
NextLargest_LastOnTie(keys, ws) ==
    CHOOSE i \in DOMAIN keys :
        \A j \in DOMAIN keys :
            \/ Count(keys[i], ws) > Count(keys[j], ws)
            \/ Count(keys[i], ws) = Count(keys[j], ws) /\ i >= j

\* the index in keys of the key heapq.nlargest takes next: the largest count,
\* and among equal counts the one met first
NextLargest(keys, ws) ==
    CHOOSE i \in DOMAIN keys :
        \A j \in DOMAIN keys :
            \/ Count(keys[i], ws) > Count(keys[j], ws)
            \/ Count(keys[i], ws) = Count(keys[j], ws) /\ i <= j

RemoveAt(s, i) == SubSeq(s, 1, i - 1) \o SubSeq(s, i + 1, Len(s))

\* heapq.nlargest(n, counter.items(), key=count), words only
RECURSIVE NLargest(_, _, _)
NLargest(n, keys, ws) ==
    IF n = 0 \/ keys = <<>> THEN <<>>
    ELSE LET i == NextLargest(keys, ws)
         IN  <<keys[i]>> \o NLargest(n - 1, RemoveAt(keys, i), ws)

\* [word for word, _ in Counter(ws).most_common(n)]
most_common(ws, n) == NLargest(n, CounterKeys(ws, {}), ws)

positive == <<"p","o","s","i","t","i","v","e">>

vibes == <<"v","i","b","e","s">>

\* filtered_words as line 958 of generate_image_with_imagen builds it
filtered_words_imagen(affirmation) ==
    FilterWords(findall_words(lower(affirmation)), stop_words_imagen)

\* filtered_words as line 139 of generate_image builds it
filtered_words_image(affirmation) ==
    FilterWords(findall_words(lower(affirmation)), stop_words_image)

\* key_words_image with the filler put first
key_words_image_FillerFirst(affirmation) ==
    LET fw == filtered_words_image(affirmation)
    IN  IF Len(fw) >= 2 THEN most_common(fw, KeyWordCount)
        ELSE IF Len(fw) = 1 THEN <<positive, fw[1]>>
        ELSE <<positive, vibes>>

\* key_words as lines 136-148 of generate_image build it
key_words_image(affirmation) ==
    LET fw == filtered_words_image(affirmation)
    IN  IF Len(fw) >= 2 THEN most_common(fw, KeyWordCount)
        ELSE IF Len(fw) = 1 THEN <<fw[1], positive>>
        ELSE <<positive, vibes>>

\* key_words_imagen without the final else branch
key_words_imagen_NoDefault(affirmation) ==
    LET fw == filtered_words_imagen(affirmation)
    IN  IF Len(fw) = 1 THEN <<fw[1], positive>>
        ELSE most_common(fw, KeyWordCount)

\* key_words as lines 955-967 of generate_image_with_imagen build it
key_words_imagen(affirmation) ==
    LET fw == filtered_words_imagen(affirmation)
    IN  IF Len(fw) >= 2 THEN most_common(fw, KeyWordCount)
        ELSE IF Len(fw) = 1 THEN <<fw[1], positive>>
        ELSE <<positive, vibes>>


(***************************************************************************)
(* The fallback affirmations: the table of generate_affirmation and the    *)
(* table of create_streamlit_ui.                                           *)
(***************************************************************************)
affirmation_positivity ==
    <<"Y","o","u"," ","a","r","e"," ","f","i","l","l","e","d"," ","w","i","t","h"," ","u","n","l","i","m","i",
      "t","e","d"," ","p","o","t","e","n","t","i","a","l","."," ","E","v","e","r","y"," ","d","a","y"," ","b",
      "r","i","n","g","s"," ","n","e","w"," ","o","p","p","o","r","t","u","n","i","t","i","e","s"," ","f","o",
      "r"," ","g","r","o","w","t","h",".">>

affirmation_motivation ==
    <<"Y","o","u"," ","h","a","v","e"," ","t","h","e"," ","s","t","r","e","n","g","t","h"," ","t","o"," ","o",
      "v","e","r","c","o","m","e"," ","a","n","y"," ","c","h","a","l","l","e","n","g","e","."," ","K","e","e",
      "p"," ","p","u","s","h","i","n","g"," ","f","o","r","w","a","r","d"," ","t","o","w","a","r","d"," ","y",
      "o","u","r"," ","d","r","e","a","m","s",".">>

affirmation_success ==
    <<"Y","o","u","r"," ","h","a","r","d"," ","w","o","r","k"," ","i","s"," ","c","r","e","a","t","i","n","g",
      " ","t","h","e"," ","s","u","c","c","e","s","s"," ","y","o","u"," ","d","e","s","e","r","v","e","."," ",
      "C","e","l","e","b","r","a","t","e"," ","e","a","c","h"," ","s","t","e","p"," ","o","f"," ","y","o","u",
      "r"," ","j","o","u","r","n","e","y",".">>

affirmation_happiness ==
    <<"J","o","y"," ","l","i","v","e","s"," ","w","i","t","h","i","n"," ","y","o","u",","," ","n","o","t"," ",
      "i","n"," ","e","x","t","e","r","n","a","l"," ","c","i","r","c","u","m","s","t","a","n","c","e","s",".",
      " ","Y","o","u"," ","d","e","s","e","r","v","e"," ","t","o"," ","b","e"," ","h","a","p","p","y"," ","r",
      "i","g","h","t"," ","n","o","w",".">>

affirmation_gratitude ==
    <<"Y","o","u","r"," ","l","i","f","e"," ","i","s"," ","f","i","l","l","e","d"," ","w","i","t","h"," ","b",
      "l","e","s","s","i","n","g","s"," ","w","o","r","t","h"," ","c","e","l","e","b","r","a","t","i","n","g",
      "."," ","T","a","k","e"," ","a"," ","m","o","m","e","n","t"," ","t","o"," ","a","p","p","r","e","c","i",
      "a","t","e"," ","a","l","l"," ","t","h","a","t"," ","y","o","u"," ","h","a","v","e",".">>

affirmation_self_love ==
    <<"Y","o","u"," ","a","r","e"," ","w","o","r","t","h","y"," ","o","f"," ","l","o","v","e"," ","a","n","d",
      " ","r","e","s","p","e","c","t"," ","e","x","a","c","t","l","y"," ","a","s"," ","y","o","u"," ","a","r",
      "e","."," ","E","m","b","r","a","c","e"," ","y","o","u","r"," ","u","n","i","q","u","e"," ","q","u","a",
      "l","i","t","i","e","s",".">>

affirmation_mindfulness ==
    <<"T","h","i","s"," ","p","r","e","s","e","n","t"," ","m","o","m","e","n","t"," ","i","s"," ","a"," ","g",
      "i","f","t","."," ","B","r","e","a","t","h","e"," ","d","e","e","p","l","y"," ","a","n","d"," ","c","o",
      "n","n","e","c","t"," ","w","i","t","h"," ","t","h","e"," ","p","e","a","c","e"," ","t","h","a","t","'",
      "s"," ","a","l","w","a","y","s"," ","w","i","t","h","i","n"," ","y","o","u",".">>

affirmation_generic ==
    <<"Y","o","u"," ","a","r","e"," ","c","a","p","a","b","l","e"," ","o","f"," ","a","m","a","z","i","n","g",
      " ","t","h","i","n","g","s","."," ","T","o","d","a","y"," ","i","s"," ","f","u","l","l"," ","o","f"," ",
      "p","o","s","s","i","b","i","l","i","t","i","e","s",".">>

affirmation_positivity_ui ==
    <<"Y","o","u"," ","a","r","e"," ","f","i","l","l","e","d"," ","w","i","t","h"," ","u","n","l","i","m","i",
      "t","e","d"," ","p","o","t","e","n","t","i","a","l","."," ","E","v","e","r","y"," ","d","a","y"," ","b",
      "r","i","n","g","s"," ","n","e","w"," ","o","p","p","o","r","t","u","n","i","t","i","e","s"," ","f","o",
      "r"," ","g","r","o","w","t","h",".">>

affirmation_motivation_ui ==
    <<"Y","o","u"," ","h","a","v","e"," ","t","h","e"," ","s","t","r","e","n","g","t","h"," ","t","o"," ","o",
      "v","e","r","c","o","m","e"," ","a","n","y"," ","c","h","a","l","l","e","n","g","e","."," ","K","e","e",
      "p"," ","p","u","s","h","i","n","g"," ","f","o","r","w","a","r","d"," ","t","o","w","a","r","d"," ","y",
      "o","u","r"," ","d","r","e","a","m","s",".">>

affirmation_success_ui ==
    <<"Y","o","u","r"," ","h","a","r","d"," ","w","o","r","k"," ","i","s"," ","c","r","e","a","t","i","n","g",
      " ","t","h","e"," ","s","u","c","c","e","s","s"," ","y","o","u"," ","d","e","s","e","r","v","e","."," ",
      "C","e","l","e","b","r","a","t","e"," ","e","a","c","h"," ","s","t","e","p"," ","o","f"," ","y","o","u",
      "r"," ","j","o","u","r","n","e","y",".">>

affirmation_happiness_ui ==
    <<"J","o","y"," ","l","i","v","e","s"," ","w","i","t","h","i","n"," ","y","o","u",","," ","n","o","t"," ",
      "i","n"," ","e","x","t","e","r","n","a","l"," ","c","i","r","c","u","m","s","t","a","n","c","e","s",".",
      " ","Y","o","u"," ","d","e","s","e","r","v","e"," ","t","o"," ","b","e"," ","h","a","p","p","y"," ","r",
      "i","g","h","t"," ","n","o","w",".">>

affirmation_gratitude_ui ==
    <<"Y","o","u","r"," ","l","i","f","e"," ","i","s"," ","f","i","l","l","e","d"," ","w","i","t","h"," ","b",
      "l","e","s","s","i","n","g","s"," ","w","o","r","t","h"," ","c","e","l","e","b","r","a","t","i","n","g",
      "."," ","T","a","k","e"," ","a"," ","m","o","m","e","n","t"," ","t","o"," ","a","p","p","r","e","c","i",
      "a","t","e"," ","a","l","l"," ","t","h","a","t"," ","y","o","u"," ","h","a","v","e",".">>

affirmation_self_love_ui ==
    <<"Y","o","u"," ","a","r","e"," ","w","o","r","t","h","y"," ","o","f"," ","l","o","v","e"," ","a","n","d",
      " ","r","e","s","p","e","c","t"," ","e","x","a","c","t","l","y"," ","a","s"," ","y","o","u"," ","a","r",
      "e","."," ","E","m","b","r","a","c","e"," ","y","o","u","r"," ","u","n","i","q","u","e"," ","q","u","a",
      "l","i","t","i","e","s",".">>

affirmation_mindfulness_ui ==
    <<"T","h","i","s"," ","p","r","e","s","e","n","t"," ","m","o","m","e","n","t"," ","i","s"," ","a"," ","g",
      "i","f","t","."," ","B","r","e","a","t","h","e"," ","d","e","e","p","l","y"," ","a","n","d"," ","c","o",
      "n","n","e","c","t"," ","w","i","t","h"," ","t","h","e"," ","p","e","a","c","e"," ","t","h","a","t","'",
      "s"," ","a","l","w","a","y","s"," ","w","i","t","h","i","n"," ","y","o","u",".">>

affirmation_generic_ui ==
    <<"Y","o","u"," ","a","r","e"," ","c","a","p","a","b","l","e"," ","o","f"," ","a","m","a","z","i","n","g",
      " ","t","h","i","n","g","s","."," ","T","o","d","a","y"," ","i","s"," ","f","u","l","l"," ","o","f"," ",
      "p","o","s","s","i","b","i","l","i","t","i","e","s",".">>

\* the options of the theme selectbox
Themes ==
    {"positivity", "motivation", "success", "happiness", "gratitude", "self-love", "mindfulness"}

\* themes a caller of generate_affirmation may pass that no table holds
OtherThemes == {"resilience", ""}

\* default_affirmations of generate_affirmation
default_affirmations ==
    "positivity" :> affirmation_positivity @@ "motivation" :> affirmation_motivation @@
    "success" :> affirmation_success @@ "happiness" :> affirmation_happiness @@
    "gratitude" :> affirmation_gratitude @@ "self-love" :> affirmation_self_love @@
    "mindfulness" :> affirmation_mindfulness

\* default_affirmations of create_streamlit_ui
default_affirmations_ui ==
    "positivity" :> affirmation_positivity_ui @@ "motivation" :> affirmation_motivation_ui @@
    "success" :> affirmation_success_ui @@ "happiness" :> affirmation_happiness_ui @@
    "gratitude" :> affirmation_gratitude_ui @@ "self-love" :> affirmation_self_love_ui @@
    "mindfulness" :> affirmation_mindfulness_ui

\* default_affirmations.get(theme, "You are capable of ...") of generate_affirmation
default_affirmations_get(th) ==
    IF th \in DOMAIN default_affirmations THEN default_affirmations[th] ELSE affirmation_generic

\* the lookup answering another theme's string for gratitude
default_affirmations_ui_get_WrongEntry(th) ==
    IF th = "gratitude" THEN affirmation_positivity_ui
    ELSE IF th \in DOMAIN default_affirmations_ui THEN default_affirmations_ui[th]
    ELSE affirmation_generic_ui

\* default_affirmations.get(theme, "You are capable of ...") of create_streamlit_ui
default_affirmations_ui_get(th) ==
    IF th \in DOMAIN default_affirmations_ui THEN default_affirmations_ui[th]
    ELSE affirmation_generic_ui

(***************************************************************************)
(* generate_affirmation.                                                   *)
(***************************************************************************)
\* str.strip: leading and trailing whitespace removed
RECURSIVE lstrip(_)
lstrip(s) == IF s # <<>> /\ IsSpace(Head(s)) THEN lstrip(Tail(s)) ELSE s

RECURSIVE rstrip(_)
rstrip(s) == IF s # <<>> /\ IsSpace(s[Len(s)]) THEN rstrip(SubSeq(s, 1, Len(s) - 1)) ELSE s

strip(s) == rstrip(lstrip(s))

\* c.isalnum() or c.isspace() or c in '.,!?'
KeptChar(c) == IsAlnum(c) \/ IsSpace(c) \/ c \in {".", ",", "!", "?"}

\* ''.join(c for c in affirmation_text if ...)
clean(s) == SelectSeq(s, KeptChar)

SuccessAffirmation == "success: Successfully generated affirmation using Gemini 1.5 Flash"

WarningAffirmation == "warning: Error generating affirmation"

\* What the text generator does in one call of generate_affirmation:
\*   import_error    import google.generativeai fails (line 72, outside the try)
\*   generate_error  genai.configure, GenerativeModel or generate_content raises
\*   text_error      response.text raises, after the success message
\*   ok              response.text is the response
TextOutcomes == {"import_error", "generate_error", "text_error", "ok"}

\* generate_affirmation whose except branch shows no warning
generate_affirmation_SilentFallback(gen, th) ==
    CASE gen.outcome = "import_error" ->
            [raised |-> TRUE, value |-> <<>>, shown |-> <<>>]
      [] gen.outcome = "generate_error" ->
            [raised |-> FALSE, value |-> default_affirmations_get(th), shown |-> <<>>]
      [] gen.outcome = "text_error" ->
            [raised |-> FALSE, value |-> default_affirmations_get(th),
             shown |-> <<SuccessAffirmation>>]
      [] OTHER ->
            [raised |-> FALSE, value |-> clean(strip(gen.response)),
             shown |-> <<SuccessAffirmation>>]

\* generate_affirmation(api_key, theme): what it returns (or that it raised) and the
\* messages it shows, given what the text generator does
generate_affirmation(gen, th) ==
    CASE gen.outcome = "import_error" ->
            [raised |-> TRUE, value |-> <<>>, shown |-> <<>>]
      [] gen.outcome = "generate_error" ->
            [raised |-> FALSE, value |-> default_affirmations_get(th),
             shown |-> <<WarningAffirmation>>]
      [] gen.outcome = "text_error" ->
            [raised |-> FALSE, value |-> default_affirmations_get(th),
             shown |-> <<SuccessAffirmation, WarningAffirmation>>]
      [] OTHER ->
            [raised |-> FALSE, value |-> clean(strip(gen.response)),
             shown |-> <<SuccessAffirmation>>]

\* the responses of the text generator the model draws from
GenTexts ==
    { <<" "," ","S","t","a","y"," ","c","a","l","m"," ","&"," ","c","a","r","r","y"," ","o","n","!","\n">>,
      <<"Y","o","u","'","v","e"," ","g","o","t"," ","t","h","i","s"," ","-"," ","1","0","0","%",".">>,
      affirmation_positivity }

\* what the text generator may do in one request
TextGens ==
    { [outcome |-> o, response |-> <<>>] : o \in TextOutcomes \ {"ok"} }
        \cup { [outcome |-> "ok", response |-> r] : r \in GenTexts }

(***************************************************************************)
(* generate_image_with_imagen and get_default_image, by what they return.  *)
(***************************************************************************)
\* Python's None, among the strings that stand for paths and URLs
None == "None"

\* get_default_image: the downloaded file, or None on a non-200 answer or an error
get_default_image(d) == IF d = "ok" THEN "default.jpg" ELSE None

\* upload_to_gcs: the short URL, or None (it catches every error)
upload_to_gcs(u) == IF u = "url" THEN "https://short.url/image" ELSE None

\* One run of generate_image_with_imagen, stage by stage ("-": stage not reached):
\*   enhance  the Gemini prompt enhancement (lines 983-1003)
\*   imagen   the first Imagen call (lines 1006-1082) and the validation of its
\*            image (lines 1084-1090)
\*   alt      the alternative call (lines 1110-1133) and the validation of its
\*            image (lines 1135-1141)
\*   upload   upload_to_gcs after a validated image
\*   default  get_default_image
\* A run with enhance "-" is the call of get_default_image alone.
StageFailures == {"call_error", "invalid_image"}

ImageRuns ==
    { r \in [enhance : {"ok", "raise", "-"}, imagen : {"ok", "-"} \cup StageFailures,
             alt : {"ok", "-"} \cup StageFailures, upload : {"url", "None", "-"},
             default : {"ok", "non_200", "error", "-"}] :
        /\ (r.imagen # "-") <=> (r.enhance = "ok")
        /\ (r.alt # "-") <=> (r.imagen \in StageFailures)
        /\ (r.upload # "-") <=> (r.imagen = "ok" \/ r.alt = "ok")
        /\ (r.default # "-") <=> (r.enhance \in {"raise", "-"} \/ r.alt \in StageFailures) }

\* the function whose handler of the alternative call's failure raises again
generate_image_with_imagen_Reraise(img) ==
    IF img.enhance = "raise"
    THEN [raised |-> FALSE, tuple |-> FALSE, path |-> get_default_image(img.default),
          url |-> None]
    ELSE IF img.imagen = "ok"
    THEN [raised |-> FALSE, tuple |-> TRUE, path |-> "imagen.png",
          url |-> upload_to_gcs(img.upload)]
    ELSE IF img.alt = "ok"
    THEN [raised |-> FALSE, tuple |-> TRUE, path |-> "alternative.png",
          url |-> upload_to_gcs(img.upload)]
    ELSE [raised |-> TRUE, tuple |-> FALSE, path |-> None, url |-> None]

\* the function that gives up after the first Imagen call
generate_image_with_imagen_NoAlternative(img) ==
    IF img.enhance = "raise"
    THEN [raised |-> FALSE, tuple |-> FALSE, path |-> get_default_image(img.default),
          url |-> None]
    ELSE IF img.imagen = "ok"
    THEN [raised |-> FALSE, tuple |-> TRUE, path |-> "imagen.png",
          url |-> upload_to_gcs(img.upload)]
    ELSE [raised |-> FALSE, tuple |-> FALSE,
          path |-> get_default_image(IF img.default = "-" THEN "ok" ELSE img.default),
          url |-> None]

\* generate_image_with_imagen(api_key, affirmation, log_callback): a tuple
\* (path, url) after a validated image, else what get_default_image returns; every
\* exception of a stage is caught (lines 1106, 1156, 1161), none is raised.
\* The key words of the affirmation enter the prompts only, not the result.
generate_image_with_imagen(img) ==
    IF img.enhance = "raise"
    THEN [raised |-> FALSE, tuple |-> FALSE, path |-> get_default_image(img.default),
          url |-> None]
    ELSE IF img.imagen = "ok"
    THEN [raised |-> FALSE, tuple |-> TRUE, path |-> "imagen.png",
          url |-> upload_to_gcs(img.upload)]
    ELSE IF img.alt = "ok"
    THEN [raised |-> FALSE, tuple |-> TRUE, path |-> "alternative.png",
          url |-> upload_to_gcs(img.upload)]
    ELSE [raised |-> FALSE, tuple |-> FALSE, path |-> get_default_image(img.default),
          url |-> None]

(***************************************************************************)
(* create_streamlit_ui: the session state, the Generate handler and the    *)
(* preview.                                                                *)
(***************************************************************************)
\* st.session_state.<k> = v
Set(ss, k, v) == (k :> v) @@ ss

ApiKeys == {"", "key"}

\* what the preview finds at image_path: a file PIL opens, a file it cannot open,
\* or no file
Views == {"opens", "cannot_open", "missing"}

ErrorApiKey == "error: Please enter your Gemini API key in the sidebar"

SuccessComplete == "success: Generation complete! Review your content below."

ErrorGenerating == "error: Error generating content"

WarningDefaultContent == "warning: Using default content due to API error. You can still proceed."

WarningCannotDisplay == "warning: Cannot display image. A new image will be generated when sending."

WarningImageFailed == "warning: Image generation failed. Only the affirmation text will be sent."

ErrorCredentials == "error: Please fill in all Instagram credentials and recipient information"

SuccessSelenium == "success: Messages sent successfully to all recipients!"

ErrorSeleniumBrowser == "error: Failed to initialize any browser"

ErrorSeleniumSending == "error: Error during message sending"

SuccessInstabot == "success: Messages sent successfully!"

ErrorInstabot == "error: Error with Instabot"

\* the options of the "Sending Method" radio (line 1462)
Methods == {"Selenium (Recommended)", "Instabot"}

\* the values of the sidebar's text inputs at a script run
Usernames == {"", "user"}

Passwords == {"", "secret"}

Recipients == {"", "alice, bob"}

\* the themes the operator picks in the selectbox
PickedThemes == {"positivity", "gratitude", "mindfulness"}

\* a generation request: what the text generator does and how the image run goes;
\* when generate_affirmation raises, only get_default_image is run. The handler
\* sees no difference between the two ways a call of the image run fails: its
\* requests take the first.
Runs ==
    { r \in [text : TextGens, image : ImageRuns] :
        /\ (r.text.outcome = "import_error") <=> (r.image.enhance = "-")
        /\ "invalid_image" \notin {r.image.imagen, r.image.alt} }

\* the image run of no request
NoImageRun == [enhance |-> "-", imagen |-> "-", alt |-> "-", upload |-> "-", default |-> "-"]

\* the sending of a script run that started none
NoSending ==
    [method |-> "-", affirmation |-> <<>>, image_path |-> None, image_url |-> None,
     full_message |-> <<>>, send_photo |-> FALSE]

\* lines 1377-1394: the session state of a new session: the attributes the Generate
\* handler, the preview and the Send handler read or write. The Send handler reads
\* the credentials, the recipients and the method from the sidebar's widgets.
InitUI ==
    /\ session_state = [affirmation_generated |-> FALSE, gemini_api_key |-> "",
                        theme |-> "positivity"]
    /\ shown = <<>>
    /\ request = [theme |-> "positivity", text |-> [outcome |-> "-", response |-> <<>>],
                  image |-> NoImageRun]
    /\ sending = NoSending

\* generate_affirmation and generate_image_with_imagen on every input of a request
generate_affirmation_of ==
    [g \in TextGens, th \in Themes |-> generate_affirmation(g, th)]

generate_image_with_imagen_of ==
    [img \in ImageRuns |-> generate_image_with_imagen(img)]

\* lines 1525-1544: the except branch of the Generate handler
ExceptBranch(ss, th, img, before) ==
    [state |->
        Set(Set(Set(Set(ss, "affirmation", default_affirmations_ui_get(th)),
                    "image_path",
                    get_default_image(IF img.default = "-" THEN "ok" ELSE img.default)),
                "image_url", None),
            "affirmation_generated", TRUE),
     shown |-> before \o <<ErrorGenerating, WarningDefaultContent>>]

\* lines 1505-1523: the try branch of the Generate handler after both calls returned
TryBranch(ss, ga, result) ==
    [state |->
        Set(Set(Set(Set(ss, "affirmation", ga.value),
                    "image_path", result.path),
                "image_url", IF result.tuple THEN result.url ELSE None),
            "affirmation_generated", TRUE),
     shown |-> ga.shown \o <<SuccessComplete>>]

\* the handler whose except branch takes the fallback of a fixed theme
GenerateHandler_FixedTheme(ss, run) ==
    IF ss.gemini_api_key = ""
    THEN [state |-> ss, shown |-> <<ErrorApiKey>>]
    ELSE
        LET ga == generate_affirmation_of[run.text, ss.theme]
        IN  IF ga.raised
            THEN ExceptBranch(ss, "positivity", run.image, <<>>)
            ELSE
                LET result == generate_image_with_imagen_of[run.image]
                IN  IF result.raised
                    THEN ExceptBranch(ss, "positivity", run.image, ga.shown)
                    ELSE TryBranch(ss, ga, result)

\* the handler without its except branch: an exception of a generator ends the
\* script run, with what the try branch had stored by then
GenerateHandler_NoExcept(ss, run) ==
    IF ss.gemini_api_key = ""
    THEN [state |-> ss, shown |-> <<ErrorApiKey>>]
    ELSE
        LET ga == generate_affirmation_of[run.text, ss.theme]
        IN  IF ga.raised
            THEN [state |-> ss, shown |-> <<"exception">>]
            ELSE
                LET result == generate_image_with_imagen_of[run.image]
                IN  IF result.raised
                    THEN [state |-> Set(ss, "affirmation", ga.value),
                          shown |-> ga.shown \o <<"exception">>]
                    ELSE TryBranch(ss, ga, result)

\* the handler that stores the image URL where the image path belongs
GenerateHandler_UrlAsPath(ss, run) ==
    IF ss.gemini_api_key = ""
    THEN [state |-> ss, shown |-> <<ErrorApiKey>>]
    ELSE
        LET ga == generate_affirmation_of[run.text, ss.theme]
        IN  IF ga.raised
            THEN ExceptBranch(ss, ss.theme, run.image, <<>>)
            ELSE
                LET result == generate_image_with_imagen_of[run.image]
                IN  IF result.raised
                    THEN ExceptBranch(ss, ss.theme, run.image, ga.shown)
                    ELSE TryBranch(ss, ga, [result EXCEPT !.path = result.url])

\* lines 1495-1546: the Generate button's handler on session state ss
GenerateHandler(ss, run) ==
    IF ss.gemini_api_key = ""
    THEN [state |-> ss, shown |-> <<ErrorApiKey>>]
    ELSE
        LET ga == generate_affirmation_of[run.text, ss.theme]
        IN  IF ga.raised
            THEN ExceptBranch(ss, ss.theme, run.image, <<>>)
            ELSE
                LET result == generate_image_with_imagen_of[run.image]
                IN  IF result.raised
                    THEN ExceptBranch(ss, ss.theme, run.image, ga.shown)
                    ELSE TryBranch(ss, ga, result)

\* What the preview can find at the stored image path. A file of the image
\* generator passed PIL's verification (lines 1084-1090, 1135-1141) and opens
\* unless the temporary file is gone; the downloaded default image was never
\* verified.
ViewsOf(ss) ==
    IF ~ss.affirmation_generated \/ "image_path" \notin DOMAIN ss THEN {"missing"}
    ELSE IF ss.image_path = None THEN {"missing"}
    ELSE IF ss.image_path \in {"imagen.png", "alternative.png"} THEN {"opens", "missing"}
    ELSE Views

\* lines 1550-1576: the preview of a script run
Preview(ss, view) ==
    IF ~ss.affirmation_generated
    THEN [state |-> ss, shown |-> <<>>]
    ELSE IF "image_path" \in DOMAIN ss /\ ss.image_path # None /\ view # "missing"
    THEN IF view = "opens"
         THEN [state |-> ss, shown |-> <<>>]
         ELSE [state |-> Set(ss, "image_path", None), shown |-> <<WarningCannotDisplay>>]
    ELSE [state |-> ss, shown |-> <<WarningImageFailed>>]

\* what a sending method may return to the handler: (success, message)
SendResults(method) ==
    IF method = "Selenium (Recommended)"
    THEN {SuccessSelenium, ErrorSeleniumBrowser, ErrorSeleniumSending}
    ELSE {SuccessInstabot, ErrorInstabot}

\* the Send handler that does not look at the credentials
SendHandler_NoCredentialTest(ss, username, password, recipients, method, result) ==
    [sending |-> [method |-> method, affirmation |-> ss.affirmation,
                  image_path |-> IF "image_path" \in DOMAIN ss THEN ss.image_path ELSE None,
                  image_url |-> IF "image_url" \in DOMAIN ss THEN ss.image_url ELSE None,
                  full_message |-> <<>>, send_photo |-> FALSE],
     shown |-> <<result>>]

\* lines 1587-1626: the "Send to Instagram" button's handler on session state ss
\* and the values of the sidebar's widgets; result is what the sending method returns
SendHandler(ss, username, password, recipients, method, result) ==
    IF username = "" \/ password = "" \/ recipients = ""
    THEN [sending |-> NoSending, shown |-> <<ErrorCredentials>>]
    ELSE [sending |-> [method |-> method, affirmation |-> ss.affirmation,
                       image_path |-> IF "image_path" \in DOMAIN ss THEN ss.image_path ELSE None,
                       image_url |-> IF "image_url" \in DOMAIN ss THEN ss.image_url ELSE None,
                       full_message |-> <<>>, send_photo |-> FALSE],
          shown |-> <<result>>]

(***************************************************************************)
(* The texts the key-word block is run on: up to MaxPieces pieces of a     *)
(* small lexicon, concatenated.                                            *)
(***************************************************************************)
MaxPieces == 3

Lexicon ==
    { <<"j","o","y"," ">>,
      <<"p","e","a","c","e"," ">>,
      <<"P","e","a","c","e",","," ">>,
      <<"c","a","l","m"," ">>,
      <<"y","o","u","r"," ">>,
      <<"p","o","s","i","t","i","v","e"," ">>,
      <<"s","e","l","f","-","l","o","v","e","\n">>,
      <<"d","a","y","_","1">> }

RECURSIVE Flatten(_)
Flatten(ss) == IF ss = <<>> THEN <<>> ELSE Head(ss) \o Flatten(Tail(ss))

\* the texts the specification's examples name
JoyJoyJoyPeace == <<"j","o","y"," ","j","o","y"," ","j","o","y"," ","p","e","a","c","e">>

ExampleTexts == { <<>>, JoyJoyJoyPeace }

Texts == ExampleTexts \cup UNION { {Flatten(f) : f \in [1..n -> Lexicon]} : n \in 0..MaxPieces }

\* the affirmations generate_image_with_imagen is called on
ImagenTexts == ExampleTexts \cup {affirmation_positivity}

(***************************************************************************)
(* automate_instagram_messages_selenium: the message for a recipient, its  *)
(* parts (lines 414-429, 796-808) and their delivery (lines 810-895).      *)
(***************************************************************************)
\* line 801: the length above which the message is split
MaxMessageLen == 500

ImageUrlPrefix ==
    <<"\n","\n","H","e","r","e","'","s"," ","y","o","u","r"," ","a","f","f","i","r","m",
      "a","t","i","o","n"," ","i","m","a","g","e",":"," ">>

ImagePlaceholder ==
    <<"\n","\n","[","I","m","a","g","e"," ","w","a","s"," ","g","e","n","e","r","a","t",
      "e","d"," ","w","i","t","h"," ","G","e","m","i","n","i"," ","A","I"," ","-"," ",
      "c","h","e","c","k"," ","y","o","u","r"," ","a","p","p"," ","t","o"," ","v","i",
      "e","w"," ","i","t","]">>

\* the characters of the URL upload_to_gcs gives
ShortUrl ==
    <<"h","t","t","p","s",":","/","/","s","h","o","r","t",".","u","r","l","/","i","m",
      "a","g","e">>

\* lines 414-429: image_message, from image_path, os.path.exists(image_path) and
\* image_url
ImageMessage(image_path, exists, image_url) ==
    IF image_path # None /\ exists
    THEN IF image_url # None THEN ImageUrlPrefix \o ShortUrl ELSE ImagePlaceholder
    ELSE <<>>

\* lines 797-799
full_message(aff, img_msg) == IF img_msg # <<>> THEN aff \o img_msg ELSE aff

\* the parts of a sender that splits every message with an image text
MessageParts_AlwaysSplit(aff, img_msg) ==
    <<aff>> \o (IF img_msg # <<>> THEN <<strip(img_msg)>> ELSE <<>>)

\* the parts of a sender that does not strip the image text
MessageParts_NoStrip(aff, img_msg) ==
    IF Len(full_message(aff, img_msg)) > MaxMessageLen
    THEN <<aff>> \o (IF img_msg # <<>> THEN <<img_msg>> ELSE <<>>)
    ELSE <<full_message(aff, img_msg)>>

\* lines 801-808: message_parts
MessageParts(aff, img_msg) ==
    IF Len(full_message(aff, img_msg)) > MaxMessageLen
    THEN <<aff>> \o (IF img_msg # <<>> THEN <<strip(img_msg)>> ELSE <<>>)
    ELSE <<full_message(aff, img_msg)>>

\* lines 851-864: send_methods (the Enter key, the Send button, a scripted Enter)
send_methods == <<"enter_key", "send_button", "script_enter">>

\* lines 823-849: how the part gets into the message input: typed, pasted from the
\* clipboard, set by a script; "error" when the click or the script raises
Inputs == {"send_keys", "paste", "execute_script", "error"}

\* The affirmations the sender is given: the empty one, a fallback, and texts of
\* words whose lengths are within Margin of the lengths at which the message, with
\* each image text, reaches MaxMessageLen.
Margin == 1

WordsPattern == <<"s","t","a","y"," ","c","a","l","m"," ">>

WordsOfLen(n) == [i \in 1..n |-> WordsPattern[((i - 1) % Len(WordsPattern)) + 1]]

ImageMessages == {<<>>, ImagePlaceholder, ImageUrlPrefix \o ShortUrl}

Affirmations ==
    {<<>>, affirmation_positivity} \cup
    { WordsOfLen(MaxMessageLen - Len(m) + d) : m \in ImageMessages, d \in (0 - Margin)..Margin }

\* lines 315-319: the Instabot sender's full_message, from affirmation and image_url
InstabotMessage(aff, image_url) ==
    IF image_url # None THEN aff \o ImageUrlPrefix \o ShortUrl ELSE aff

\* What the method the Send handler calls composes for every recipient, from the
\* handler's arguments s and from os.path.exists(image_path): the Selenium sender
\* (lines 414-429, 796-799) the affirmation and image_message; the Instabot sender
\* (lines 315-335) the affirmation and the URL, and the photo when the file is there.
send_affirmation(s, exists) ==
    IF s.method = "-" THEN s
    ELSE IF s.method = "Selenium (Recommended)"
    THEN [s EXCEPT !.full_message =
                       full_message(s.affirmation,
                                    ImageMessage(s.image_path, exists, s.image_url))]
    ELSE [s EXCEPT !.full_message = InstabotMessage(s.affirmation, s.image_url),
                   !.send_photo = (s.image_path # None /\ exists)]

\* the image arguments of the sender: image_path, whether the file exists, image_url
ImageArgs ==
    [image_path : {None, "imagen.png"}, exists : BOOLEAN,
     image_url : {None, "https://short.url/image"}]

(***************************************************************************)
(* The pure blocks, each called on its own.                                *)
(***************************************************************************)
InitPure ==
    /\ call = "idle"
    /\ text = <<>>
    /\ filtered_words = <<>>
    /\ key_words = <<>>
    /\ theme = ""
    /\ returned = <<>>
    /\ image_run = NoImageRun

\* a caller runs the key-word block of generate_image_with_imagen on a text
ExtractImagen ==
    /\ call = "idle"
    /\ \E t \in Texts :
        /\ text' = t
        /\ filtered_words' = filtered_words_imagen(t)
        /\ key_words' = key_words_imagen(t)
    /\ call' = "generate_image_with_imagen"
    /\ UNCHANGED <<theme, returned, image_run>>
    /\ UNCHANGED <<uiVars, sendVars, callerVars>>

\* a caller runs the key-word block of generate_image on a text
ExtractImage ==
    /\ call = "idle"
    /\ \E t \in Texts :
        /\ text' = t
        /\ filtered_words' = filtered_words_image(t)
        /\ key_words' = key_words_image(t)
    /\ call' = "generate_image"
    /\ UNCHANGED <<theme, returned, image_run>>
    /\ UNCHANGED <<uiVars, sendVars, callerVars>>

\* a caller of generate_affirmation reaches the fallback lookup of its except branch
FallbackGenerateAffirmation ==
    /\ call = "idle"
    /\ \E th \in Themes \cup OtherThemes :
        /\ theme' = th
        /\ returned' = default_affirmations_get(th)
    /\ call' = "generate_affirmation"
    /\ UNCHANGED <<text, filtered_words, key_words, image_run>>
    /\ UNCHANGED <<uiVars, sendVars, callerVars>>

\* the except branch of the Generate handler looks the theme up in its own table
FallbackUI ==
    /\ call = "idle"
    /\ \E th \in Themes \cup OtherThemes :
        /\ theme' = th
        /\ returned' = default_affirmations_ui_get(th)
    /\ call' = "create_streamlit_ui"
    /\ UNCHANGED <<text, filtered_words, key_words, image_run>>
    /\ UNCHANGED <<uiVars, sendVars, callerVars>>

\* a caller runs generate_image_with_imagen on an affirmation: the key-word block,
\* then the stages of the image run
GenerateImageWithImagen ==
    /\ call = "idle"
    /\ \E t \in ImagenTexts, img \in ImageRuns :
        /\ img.enhance # "-"
        /\ text' = t
        /\ filtered_words' = filtered_words_imagen(t)
        /\ key_words' = key_words_imagen(t)
        /\ image_run' = img
        /\ returned' = generate_image_with_imagen(img)
    /\ call' = "generate_image_with_imagen"
    /\ UNCHANGED theme
    /\ UNCHANGED <<uiVars, sendVars, callerVars>>

\* the call returns; nothing of it is kept
Return ==
    /\ call # "idle"
    /\ call' = "idle"
    /\ text' = <<>>
    /\ filtered_words' = <<>>
    /\ key_words' = <<>>
    /\ theme' = ""
    /\ returned' = <<>>
    /\ image_run' = NoImageRun
    /\ UNCHANGED <<uiVars, sendVars, callerVars>>

NextPure ==
    \/ ExtractImagen
    \/ ExtractImage
    \/ FallbackGenerateAffirmation
    \/ FallbackUI
    \/ GenerateImageWithImagen
    \/ Return


(***************************************************************************)
(* The Selenium sender in the conversation of one recipient: the message   *)
(* is composed, then every part is put into the message input and sent.    *)
(***************************************************************************)
\* the sender has not returned
NoResult == [success |-> FALSE, message |-> "-"]

InitSend ==
    /\ step = "idle"
    /\ affirmation_text = <<>>
    /\ image_message = <<>>
    /\ message_parts = <<>>
    /\ part_index = 0
    /\ send_method = 0
    /\ message_sent = FALSE
    /\ delivery = <<>>
    /\ loop_i = 0
    /\ users_to_message = <<>>
    /\ user_index = 0
    /\ navigation_method = 0
    /\ verified = "-"
    /\ message_input = "-"
    /\ report = <<>>
    /\ quits = <<>>
    /\ sender_result = NoResult
    /\ session = "-"
    /\ browsers = <<>>
    /\ dialog_events = <<>>

\* lines 414-429 and 796-808: image_message, full_message and message_parts
Compose ==
    /\ step = "idle"
    /\ \E aff \in Affirmations, img \in ImageArgs :
        LET img_msg == ImageMessage(img.image_path, img.exists, img.image_url)
        IN  /\ affirmation_text' = aff
            /\ image_message' = img_msg
            /\ message_parts' = MessageParts(aff, img_msg)
    /\ part_index' = 0
    /\ step' = "input"
    /\ UNCHANGED <<send_method, message_sent, delivery, loop_i, runVars>>
    /\ UNCHANGED <<pureVars, uiVars, callerVars, setupVars>>

\* lines 812-849: the part is copied, the input clicked and the part put into it;
\* an exception of the click or of the last way to put it ends the recipient's turn
InputPart ==
    /\ step = "input"
    /\ \E how \in Inputs :
        IF how = "error"
        THEN /\ step' = "abandoned"
             /\ UNCHANGED <<delivery, send_method, message_sent>>
        ELSE /\ delivery' = Append(delivery, [part |-> part_index, event |-> how, ok |-> TRUE])
             /\ send_method' = 0
             /\ message_sent' = FALSE
             /\ step' = "send"
    /\ UNCHANGED <<affirmation_text, image_message, message_parts, part_index, loop_i, runVars>>
    /\ UNCHANGED <<pureVars, uiVars, callerVars, setupVars>>

\* the loop over send_methods without its break
TrySend_NoBreak ==
    /\ step = "send"
    /\ loop_i' = send_method
    /\ \E ok \in BOOLEAN :
        /\ delivery' = Append(delivery, [part |-> part_index,
                                         event |-> send_methods[send_method + 1], ok |-> ok])
        /\ message_sent' = (message_sent \/ ok)
        /\ send_method' = send_method + 1
        /\ step' = IF send_method + 1 < Len(send_methods) THEN "send" ELSE "sent"
    /\ UNCHANGED <<affirmation_text, image_message, message_parts, part_index, runVars>>
    /\ UNCHANGED <<pureVars, uiVars, callerVars, setupVars>>

\* lines 875-886: one turn of the loop over send_methods, which assigns i: the method
\* runs, and the loop ends at the first that does not raise
TrySend ==
    /\ step = "send"
    /\ loop_i' = send_method
    /\ \E ok \in BOOLEAN :
        /\ delivery' = Append(delivery, [part |-> part_index,
                                         event |-> send_methods[send_method + 1], ok |-> ok])
        /\ IF ok
           THEN /\ message_sent' = TRUE
                /\ step' = "sent"
                /\ UNCHANGED send_method
           ELSE /\ send_method' = send_method + 1
                /\ step' = IF send_method + 1 < Len(send_methods) THEN "send" ELSE "sent"
                /\ UNCHANGED message_sent
    /\ UNCHANGED <<affirmation_text, image_message, message_parts, part_index, runVars>>
    /\ UNCHANGED <<pureVars, uiVars, callerVars, setupVars>>

\* lines 883-895: the part's log line, then the next part or the end of the loop
NextPart ==
    /\ step = "sent"
    /\ IF part_index < Len(message_parts) - 1
       THEN /\ part_index' = part_index + 1
            /\ step' = "input"
       ELSE /\ step' = "done"
            /\ UNCHANGED part_index
    /\ UNCHANGED <<affirmation_text, image_message, message_parts, send_method, message_sent,
                   delivery, loop_i, runVars>>
    /\ UNCHANGED <<pureVars, uiVars, callerVars, setupVars>>

\* the sender leaves the recipient: nothing of the delivery is kept
NextRecipient ==
    /\ step \in {"done", "abandoned"}
    /\ step' = "idle"
    /\ affirmation_text' = <<>>
    /\ image_message' = <<>>
    /\ message_parts' = <<>>
    /\ part_index' = 0
    /\ send_method' = 0
    /\ message_sent' = FALSE
    /\ delivery' = <<>>
    /\ loop_i' = 0
    /\ UNCHANGED runVars
    /\ UNCHANGED <<pureVars, uiVars, callerVars, setupVars>>

NextSend == Compose \/ InputPart \/ TrySend \/ NextPart \/ NextRecipient

(***************************************************************************)
(* automate_instagram_messages_selenium: a browser is initialised,         *)
(* Instagram is opened and the login made, every entry of users_to_message *)
(* gets its turn (profile, conversation, verification, message input, the  *)
(* parts of the message, the delay), the function returns and the browser  *)
(* is closed.                                                              *)
(***************************************************************************)
\* the affirmations the sender is called with
SenderAffirmations == {affirmation_positivity, WordsOfLen(MaxMessageLen)}

\* lines 410-412, 494: recipients.split(','), every entry stripped
RecipientLists == {<<"alice">>, <<"alice", "", "bob">>}

\* lines 587-621: navigation_methods (the direct thread URL, the search of the
\* direct inbox, the list of conversations)
navigation_methods == <<"direct_thread", "search", "conversation_list">>

\* how the message input is located: by one of message_input_selectors (lines
\* 702-713), by the injected script (lines 720-787), or not at all
Locations == {"xpath", "script", "none"}

\* the entry of users_to_message the loop is at
CurrentUser == users_to_message[user_index + 1]

\* the parts of the recipient's message that were put into the message input
TypedParts == {delivery[k].part : k \in {j \in DOMAIN delivery : delivery[j].event \in Inputs}}

\* the runs of a send method for the recipient
SendAttempts == {k \in DOMAIN delivery : delivery[k].event \in Range(send_methods)}

\* the parts of the recipient's message a send method sent without raising
SentParts == {delivery[k].part : k \in {j \in SendAttempts : delivery[j].ok}}

\* lines 897-901: the log line after the loop over message_parts, reached only on
\* the path that composed the message: all(message_sent for _ in message_parts)
\* is message_sent, the flag of the last part, once for every part
AllPartsLog ==
    IF message_input # "script" \/ step # "done" THEN "-"
    ELSE IF \A k \in DOMAIN message_parts : message_sent
    THEN "Successfully sent all message parts"
    ELSE "Some message parts may not have been sent"

\* lines 910-911: if i < len(users_to_message) - 1, on the variable i
RateLimited == loop_i < Len(users_to_message) - 1

\* what the sender did for the entry it leaves
Turn(outcome, log, delay) ==
    [user |-> CurrentUser, position |-> user_index, outcome |-> outcome,
     verified |-> verified, message_input |-> message_input,
     parts |-> Len(message_parts), typed |-> Cardinality(TypedParts),
     sent |-> SentParts, log |-> log, delay |-> delay]

\* the loop over users_to_message goes to its next entry
Leave(outcome, log, delay) ==
    /\ report' = Append(report, Turn(outcome, log, delay))
    /\ user_index' = user_index + 1
    /\ step' = "users"
    /\ message_parts' = <<>>
    /\ part_index' = 0
    /\ send_method' = 0
    /\ message_sent' = FALSE
    /\ delivery' = <<>>
    /\ navigation_method' = 0
    /\ verified' = "-"
    /\ message_input' = "-"
    /\ UNCHANGED <<affirmation_text, image_message, users_to_message, quits, sender_result,
                   session>>
    /\ UNCHANGED <<pureVars, uiVars, callerVars, setupVars>>

\* the variables of a recipient's turn an action before the message leaves alone
TurnUnchanged ==
    /\ UNCHANGED <<affirmation_text, image_message, message_parts, part_index, send_method,
                   message_sent, delivery>>
    /\ UNCHANGED <<users_to_message, user_index, report, quits, sender_result, session>>
    /\ UNCHANGED <<pureVars, uiVars, callerVars, setupVars>>

\* line 472: max_dialogs
max_dialogs == 3

\* lines 370, 379, 396: the driver the initialisation left: the browser of the last
\* attempt when it succeeded, None without one
driver ==
    IF browsers # <<>> /\ browsers[Len(browsers)].ok
    THEN browsers[Len(browsers)].browser ELSE None

\* the sender that goes on without a driver when both browsers failed
InitBrowser_GoesOn ==
    /\ step = "idle"
    /\ \E safari \in BOOLEAN, chrome \in BOOLEAN :
        browsers' = IF safari
                    THEN <<[browser |-> "Safari", ok |-> TRUE]>>
                    ELSE <<[browser |-> "Safari", ok |-> FALSE],
                           [browser |-> "Chrome", ok |-> chrome]>>
    /\ step' = "driver"
    /\ UNCHANGED <<sender_result, dialog_events>>
    /\ UNCHANGED <<affirmation_text, image_message, message_parts, part_index, send_method,
                   message_sent, delivery, loop_i>>
    /\ UNCHANGED <<users_to_message, user_index, navigation_method, verified, message_input,
                   report, quits, session>>
    /\ UNCHANGED <<pureVars, uiVars, callerVars>>

\* lines 370-408: webdriver.Safari() is tried; when it raises, webdriver.Chrome is;
\* when that raises too, the exception raised in its place is caught by the outer
\* except clause (line 402), which returns. A driver made is never false at line 407.
InitBrowser ==
    /\ step = "idle"
    /\ \E safari \in BOOLEAN, chrome \in BOOLEAN :
        IF safari
        THEN /\ browsers' = <<[browser |-> "Safari", ok |-> TRUE]>>
             /\ step' = "driver"
             /\ UNCHANGED sender_result
        ELSE /\ browsers' = <<[browser |-> "Safari", ok |-> FALSE],
                              [browser |-> "Chrome", ok |-> chrome]>>
             /\ IF chrome
                THEN /\ step' = "driver"
                     /\ UNCHANGED sender_result
                ELSE /\ sender_result' = [success |-> FALSE, message |-> ErrorSeleniumBrowser]
                     /\ step' = "returned"
    /\ UNCHANGED dialog_events
    /\ UNCHANGED <<affirmation_text, image_message, message_parts, part_index, send_method,
                   message_sent, delivery, loop_i>>
    /\ UNCHANGED <<users_to_message, user_index, navigation_method, verified, message_input,
                   report, quits, session>>
    /\ UNCHANGED <<pureVars, uiVars, callerVars>>

\* lines 410-429: users_to_message and image_message, with the driver initialised
Start ==
    /\ step = "driver"
    /\ \E aff \in SenderAffirmations, img \in ImageArgs, users \in RecipientLists :
        /\ affirmation_text' = aff
        /\ image_message' = ImageMessage(img.image_path, img.exists, img.image_url)
        /\ users_to_message' = users
    /\ step' = "open"
    /\ UNCHANGED <<message_parts, part_index, send_method, message_sent, delivery, loop_i>>
    /\ UNCHANGED <<user_index, navigation_method, verified, message_input, report, quits,
                   sender_result, session>>
    /\ UNCHANGED <<pureVars, uiVars, callerVars, setupVars>>

\* the sender that goes on to the recipients when the opening or the login raised
OpenInstagram_GoesOn ==
    /\ step = "open"
    /\ \E how \in {"started", "get_raised", "login_raised"} :
        /\ session' = how
        /\ step' = "dialogs"
        /\ UNCHANGED sender_result
    /\ UNCHANGED <<navigation_method, verified, message_input, loop_i>>
    /\ UNCHANGED <<affirmation_text, image_message, message_parts, part_index, send_method,
                   message_sent, delivery>>
    /\ UNCHANGED <<users_to_message, user_index, report, quits>>
    /\ UNCHANGED <<pureVars, uiVars, callerVars, setupVars>>

\* the sender that returns from its except clause without the finally clause
OpenInstagram_NoFinally ==
    /\ step = "open"
    /\ \E how \in {"started", "get_raised", "login_raised"} :
        /\ session' = how
        /\ IF how = "started"
           THEN /\ step' = "dialogs"
                /\ UNCHANGED sender_result
           ELSE /\ sender_result' = [success |-> FALSE, message |-> ErrorSeleniumSending]
                /\ step' = "returned"
    /\ UNCHANGED <<navigation_method, verified, message_input, loop_i>>
    /\ UNCHANGED <<affirmation_text, image_message, message_parts, part_index, send_method,
                   message_sent, delivery>>
    /\ UNCHANGED <<users_to_message, user_index, report, quits>>
    /\ UNCHANGED <<pureVars, uiVars, callerVars, setupVars>>

\* lines 431-468, 919-922: driver.get of Instagram and the login, followed by the
\* loop over the dialogs; an exception of either is caught by the function's except
\* clause, which sets the return value
OpenInstagram ==
    /\ step = "open"
    /\ \E how \in {"started", "get_raised", "login_raised"} :
        /\ session' = how
        /\ IF how = "started"
           THEN /\ step' = "dialogs"
                /\ UNCHANGED sender_result
           ELSE /\ sender_result' = [success |-> FALSE, message |-> ErrorSeleniumSending]
                /\ step' = "finally"
    /\ UNCHANGED <<navigation_method, verified, message_input, loop_i>>
    /\ UNCHANGED <<affirmation_text, image_message, message_parts, part_index, send_method,
                   message_sent, delivery>>
    /\ UNCHANGED <<users_to_message, user_index, report, quits>>
    /\ UNCHANGED <<pureVars, uiVars, callerVars, setupVars>>

\* lines 472, 479-490: what a turn of the loop over the dialogs finds: a button,
\* which is clicked; no button; or an exception of the search or of the click
DialogFindings == {"clicked", "none", "raised"}

\* line 471, 485: dialogs_handled, the number of the buttons clicked
dialogs_handled ==
    Cardinality({k \in DOMAIN dialog_events : dialog_events[k] = "clicked"})

\* the loop over the dialogs without its two break statements
HandleDialog_NoBreak ==
    /\ step = "dialogs"
    /\ dialogs_handled < max_dialogs
    /\ \E found \in DialogFindings :
        /\ dialog_events' = Append(dialog_events, found)
        /\ step' = IF found = "clicked" /\ dialogs_handled + 1 >= max_dialogs
                   THEN "dialogs_done" ELSE "dialogs"
    /\ UNCHANGED browsers
    /\ UNCHANGED <<affirmation_text, image_message, message_parts, part_index, send_method,
                   message_sent, delivery, loop_i, runVars>>
    /\ UNCHANGED <<pureVars, uiVars, callerVars>>

\* lines 474-490: one turn of the loop "while dialogs_handled < max_dialogs": a button
\* found is clicked and counted, and the loop goes on while the count is below
\* max_dialogs; no button, or an exception, ends the loop by break
HandleDialog ==
    /\ step = "dialogs"
    /\ dialogs_handled < max_dialogs
    /\ \E found \in DialogFindings :
        /\ dialog_events' = Append(dialog_events, found)
        /\ step' = IF found = "clicked" /\ dialogs_handled + 1 < max_dialogs
                   THEN "dialogs" ELSE "dialogs_done"
    /\ UNCHANGED browsers
    /\ UNCHANGED <<affirmation_text, image_message, message_parts, part_index, send_method,
                   message_sent, delivery, loop_i, runVars>>
    /\ UNCHANGED <<pureVars, uiVars, callerVars>>

\* lines 491-493: the sender goes from the dialogs to the loop over users_to_message;
\* dialogs_handled is not read again
LeaveDialogs ==
    /\ step = "dialogs_done"
    /\ dialog_events' = <<>>
    /\ step' = "users"
    /\ UNCHANGED browsers
    /\ UNCHANGED <<affirmation_text, image_message, message_parts, part_index, send_method,
                   message_sent, delivery, loop_i, runVars>>
    /\ UNCHANGED <<pureVars, uiVars, callerVars>>

\* lines 493-496: the loop takes the next entry and assigns i; an empty entry is
\* passed over by continue
NextUser ==
    /\ step = "users"
    /\ user_index < Len(users_to_message)
    /\ loop_i' = user_index
    /\ IF CurrentUser = ""
       THEN Leave("empty", "-", FALSE)
       ELSE /\ step' = "profile"
            /\ UNCHANGED <<navigation_method, verified, message_input>>
            /\ TurnUnchanged

\* lines 498-543, 906-908: the recipient's profile is opened and the conversation
\* navigated to; an exception is caught by the recipient's except clause
OpenProfile ==
    /\ step = "profile"
    /\ UNCHANGED loop_i
    /\ \E ok \in BOOLEAN :
        IF ok
        THEN /\ step' = "verify"
             /\ UNCHANGED <<navigation_method, verified, message_input>>
             /\ TurnUnchanged
        ELSE Leave("error", "-", FALSE)

\* lines 547-585: the first call of verify_dm_conversation
VerifyDm ==
    /\ step = "verify"
    /\ \E ok \in BOOLEAN :
        IF ok
        THEN /\ verified' = "first"
             /\ step' = "find"
        ELSE /\ step' = "navigate"
             /\ UNCHANGED verified
    /\ UNCHANGED <<navigation_method, message_input, loop_i>>
    /\ TurnUnchanged

\* lines 625-634: one turn of the loop over navigation_methods, which assigns i: the
\* method runs and the conversation is verified; the loop ends at the first
\* verification that succeeds
Navigate ==
    /\ step = "navigate"
    /\ loop_i' = navigation_method
    /\ \E how \in {"verified", "unverified", "raised"} :
        IF how = "verified"
        THEN /\ step' = "final"
             /\ UNCHANGED navigation_method
        ELSE /\ navigation_method' = navigation_method + 1
             /\ step' = IF navigation_method + 1 < Len(navigation_methods)
                        THEN "navigate" ELSE "final"
    /\ UNCHANGED <<verified, message_input>>
    /\ TurnUnchanged

\* the final check that lets every recipient through
FinalCheck_Unchecked ==
    /\ step = "final"
    /\ UNCHANGED loop_i
    /\ \E ok \in BOOLEAN :
        /\ verified' = IF ok THEN "final" ELSE "-"
        /\ step' = "find"
        /\ UNCHANGED <<navigation_method, message_input>>
        /\ TurnUnchanged

\* lines 636-639: the final check after the navigation methods: the recipient whose
\* conversation is not verified is passed over by continue
FinalCheck ==
    /\ step = "final"
    /\ UNCHANGED loop_i
    /\ \E ok \in BOOLEAN :
        IF ok
        THEN /\ verified' = "final"
             /\ step' = "find"
             /\ UNCHANGED <<navigation_method, message_input>>
             /\ TurnUnchanged
        ELSE Leave("unverified", "-", FALSE)

\* lines 643-791: the message input is looked for by the selectors; the statements
\* under "if not message_input" (line 715), which run the script and, from line 794
\* on, compose and send the message, are passed over when a selector found it
FindMessageInput ==
    /\ step = "find"
    /\ \E how \in Locations :
        /\ message_input' = how
        /\ step' = CASE how = "xpath" -> "delay"
                     [] how = "script" -> "compose"
                     [] OTHER -> "abandoned"
    /\ UNCHANGED <<navigation_method, verified, loop_i>>
    /\ TurnUnchanged

\* lines 796-808: full_message and message_parts
ComposeParts ==
    /\ step = "compose"
    /\ message_parts' = MessageParts(affirmation_text, image_message)
    /\ part_index' = 0
    /\ step' = "input"
    /\ UNCHANGED <<affirmation_text, image_message, send_method, message_sent, delivery,
                   loop_i, runVars>>
    /\ UNCHANGED <<pureVars, uiVars, callerVars, setupVars>>

\* the sender whose function ends at a recipient's exception
UserError_Raises ==
    /\ step = "abandoned"
    /\ sender_result' = [success |-> FALSE, message |-> ErrorSeleniumSending]
    /\ step' = "finally"
    /\ UNCHANGED <<affirmation_text, image_message, message_parts, part_index, send_method,
                   message_sent, delivery, loop_i>>
    /\ UNCHANGED <<users_to_message, user_index, navigation_method, verified, message_input,
                   report, quits, session>>
    /\ UNCHANGED <<pureVars, uiVars, callerVars, setupVars>>

\* lines 902-908: an exception in the recipient's message is logged and raised again,
\* caught by the recipient's except clause and logged, and the loop continues
UserError ==
    /\ step = "abandoned"
    /\ UNCHANGED loop_i
    /\ Leave("error", "-", FALSE)

\* lines 897-901, 910-914: the log line about the parts, where the message was
\* composed, and the delay before the next recipient
EndOfTurn ==
    /\ step \in {"done", "delay"}
    /\ UNCHANGED loop_i
    /\ Leave("handled", AllPartsLog, RateLimited)

\* lines 916-917: after the loop
ReturnSuccess ==
    /\ step = "users"
    /\ user_index = Len(users_to_message)
    /\ sender_result' = [success |-> TRUE, message |-> SuccessSelenium]
    /\ step' = "finally"
    /\ UNCHANGED <<affirmation_text, image_message, message_parts, part_index, send_method,
                   message_sent, delivery, loop_i>>
    /\ UNCHANGED <<users_to_message, user_index, navigation_method, verified, message_input,
                   report, quits, session>>
    /\ UNCHANGED <<pureVars, uiVars, callerVars, setupVars>>

\* lines 924-930: the finally clause: driver.quit(), its exception swallowed; then
\* the function returns
Finally ==
    /\ step = "finally"
    /\ \E how \in {"quit", "raised"} : quits' = Append(quits, how)
    /\ step' = "returned"
    /\ UNCHANGED <<affirmation_text, image_message, message_parts, part_index, send_method,
                   message_sent, delivery, loop_i>>
    /\ UNCHANGED <<users_to_message, user_index, navigation_method, verified, message_input,
                   report, sender_result, session>>
    /\ UNCHANGED <<pureVars, uiVars, callerVars, setupVars>>

(***************************************************************************)
(* automate_instagram_messages_instabot: the login, a turn for every entry *)
(* of users_to_message, the logout.                                        *)
(***************************************************************************)
\* lines 272-303, 306-308: the old session files are deleted, the bot is made;
\* users_to_message is recipients.split(','), every entry stripped
StartInstabot ==
    /\ step = "idle"
    /\ \E aff \in SenderAffirmations, img \in ImageArgs, users \in RecipientLists :
        /\ affirmation_text' = aff
        /\ image_message' = InstabotMessage(<<>>, img.image_url)
        /\ users_to_message' = users
    /\ step' = "bot_login"
    /\ UNCHANGED <<message_parts, part_index, send_method, message_sent, delivery, loop_i>>
    /\ UNCHANGED <<user_index, navigation_method, verified, message_input, report, quits,
                   sender_result, session>>
    /\ UNCHANGED <<pureVars, uiVars, callerVars, setupVars>>

\* lines 301-304, 349-352: bot.login; its exception is caught by the function's
\* except clause
BotLogin ==
    /\ step = "bot_login"
    /\ \E ok \in BOOLEAN :
        IF ok
        THEN /\ session' = "bot_started"
             /\ step' = "bot_users"
             /\ UNCHANGED sender_result
        ELSE /\ session' = "bot_raised"
             /\ sender_result' = [success |-> FALSE, message |-> ErrorInstabot]
             /\ step' = "returned"
    /\ UNCHANGED <<navigation_method, verified, message_input, loop_i>>
    /\ UNCHANGED <<affirmation_text, image_message, message_parts, part_index, send_method,
                   message_sent, delivery>>
    /\ UNCHANGED <<users_to_message, user_index, report, quits>>
    /\ UNCHANGED <<pureVars, uiVars, callerVars, setupVars>>

\* lines 311-343: the turn of one entry of users_to_message, empty or not:
\* bot.send_message of the affirmation and the URL returns True or False or raises,
\* an exception is caught and logged, and the delay follows in every case
BotTurn ==
    /\ step = "bot_users"
    /\ user_index < Len(users_to_message)
    /\ UNCHANGED loop_i
    /\ \E how \in {"sent", "failed", "raised"} :
        /\ report' = Append(report,
                           [user |-> CurrentUser, position |-> user_index, outcome |-> how,
                            verified |-> "-", message_input |-> "-", parts |-> 1, typed |-> 0,
                            sent |-> IF how = "sent" THEN {0} ELSE {}, log |-> "-",
                            delay |-> TRUE])
        /\ user_index' = user_index + 1
        /\ UNCHANGED <<step, navigation_method, verified, message_input>>
        /\ UNCHANGED <<affirmation_text, image_message, message_parts, part_index,
                       send_method, message_sent, delivery>>
        /\ UNCHANGED <<users_to_message, quits, sender_result, session>>
        /\ UNCHANGED <<pureVars, uiVars, callerVars, setupVars>>

\* lines 345-352: bot.logout and the return; an exception of the logout is caught
\* by the function's except clause
BotLogout ==
    /\ step = "bot_users"
    /\ user_index = Len(users_to_message)
    /\ \E ok \in BOOLEAN :
        sender_result' = IF ok THEN [success |-> TRUE, message |-> SuccessInstabot]
                                ELSE [success |-> FALSE, message |-> ErrorInstabot]
    /\ step' = "returned"
    /\ UNCHANGED <<affirmation_text, image_message, message_parts, part_index, send_method,
                   message_sent, delivery, loop_i>>
    /\ UNCHANGED <<users_to_message, user_index, navigation_method, verified, message_input,
                   report, quits, session>>
    /\ UNCHANGED <<pureVars, uiVars, callerVars, setupVars>>

\* a call of either sending method, from its start to its return
NextSenders ==
    \/ InitBrowser
    \/ Start
    \/ OpenInstagram
    \/ HandleDialog
    \/ LeaveDialogs
    \/ NextUser
    \/ OpenProfile
    \/ VerifyDm
    \/ Navigate
    \/ FinalCheck
    \/ FindMessageInput
    \/ ComposeParts
    \/ InputPart
    \/ TrySend
    \/ NextPart
    \/ UserError
    \/ EndOfTurn
    \/ ReturnSuccess
    \/ Finally
    \/ StartInstabot
    \/ BotLogin
    \/ BotTurn
    \/ BotLogout

(***************************************************************************)
(* Concurrent callers of the key-word block, of the fallback lookup and of *)
(* the splitting of a message. Every call has its own frame: the blocks    *)
(* assign local variables only. A step is one statement of one caller.     *)
(***************************************************************************)
NumCallers == 2

Callers == 1..NumCallers

CallerThemes == {"gratitude", "resilience"}

CallerAffirmations == {affirmation_positivity, WordsOfLen(MaxMessageLen)}

CallerImageMessages == {<<>>, ImagePlaceholder}

NoArgs == [affirmation |-> <<>>, theme |-> "", image_message |-> <<>>]

NoLocals ==
    [affirmation |-> <<>>, theme |-> "", image_message |-> <<>>, words |-> <<>>,
     filtered_words |-> <<>>, key_words |-> <<>>, default_affirmations |-> <<>>,
     returned |-> <<>>, full_message |-> <<>>, message_parts |-> <<>>]

IdleFrame == [block |-> "idle", line |-> 0, args |-> NoArgs, locals |-> NoLocals]

\* a call binds its arguments in a new frame
NewFrame(block, args) ==
    [block |-> block, line |-> 0, args |-> args,
     locals |-> [NoLocals EXCEPT !.affirmation = args.affirmation, !.theme = args.theme,
                                 !.image_message = args.image_message]]

\* the variables of a block kept at module level: one set for all the callers in it
Locals_OfBlock(c) ==
    LET same == {d \in Callers : frames[d].block = frames[c].block}
    IN  frames[CHOOSE d \in same : \A e \in same : d <= e].locals

\* the local variables a statement of caller c reads: those of c's own frame
Locals(c) == frames[c].locals

\* lines 959-967: key_words from filtered_words
KeyWordsOf(fw) ==
    IF Len(fw) >= 2 THEN most_common(fw, KeyWordCount)
    ELSE IF Len(fw) = 1 THEN <<fw[1], positive>>
    ELSE <<positive, vibes>>

\* lines 801-808: message_parts from full_message, affirmation and image_message
PartsOf(full, aff, img_msg) ==
    IF Len(full) > MaxMessageLen
    THEN <<aff>> \o (IF img_msg # <<>> THEN <<strip(img_msg)>> ELSE <<>>)
    ELSE <<full>>

\* dict.get(key, default)
Get(d, key, default) == IF key \in DOMAIN d THEN d[key] ELSE default

\* the number of statements of a block
LastLine(block) == IF block = "key_words" THEN 3 ELSE 2

InitCallers == frames = [c \in Callers |-> IdleFrame]

CallKeyWords ==
    /\ \E c \in Callers, t \in ImagenTexts :
        /\ frames[c].block = "idle"
        /\ frames' = [frames EXCEPT ![c] = NewFrame("key_words", [NoArgs EXCEPT !.affirmation = t])]
    /\ UNCHANGED <<pureVars, uiVars, sendVars>>

CallFallback ==
    /\ \E c \in Callers, th \in CallerThemes :
        /\ frames[c].block = "idle"
        /\ frames' = [frames EXCEPT ![c] = NewFrame("fallback", [NoArgs EXCEPT !.theme = th])]
    /\ UNCHANGED <<pureVars, uiVars, sendVars>>

CallSplit ==
    /\ \E c \in Callers, aff \in CallerAffirmations, img_msg \in CallerImageMessages :
        /\ frames[c].block = "idle"
        /\ frames' = [frames EXCEPT ![c] =
                         NewFrame("split", [NoArgs EXCEPT !.affirmation = aff,
                                                          !.image_message = img_msg])]
    /\ UNCHANGED <<pureVars, uiVars, sendVars>>

\* lines 955-967: words, filtered_words, key_words
KeyWordsStatement ==
    /\ \E c \in Callers :
        /\ frames[c].block = "key_words"
        /\ frames[c].line < LastLine("key_words")
        /\ LET L == Locals(c)
               after ==
                   IF frames[c].line = 0
                   THEN [L EXCEPT !.words = findall_words(lower(L.affirmation))]
                   ELSE IF frames[c].line = 1
                   THEN [L EXCEPT !.filtered_words = FilterWords(L.words, stop_words_imagen)]
                   ELSE [L EXCEPT !.key_words = KeyWordsOf(L.filtered_words)]
           IN  frames' = [frames EXCEPT ![c].locals = after, ![c].line = @ + 1]
    /\ UNCHANGED <<pureVars, uiVars, sendVars>>

\* lines 102-111: default_affirmations, then the lookup
FallbackStatement ==
    /\ \E c \in Callers :
        /\ frames[c].block = "fallback"
        /\ frames[c].line < LastLine("fallback")
        /\ LET L == Locals(c)
               after ==
                   IF frames[c].line = 0
                   THEN [L EXCEPT !.default_affirmations = default_affirmations]
                   ELSE [L EXCEPT !.returned =
                             Get(L.default_affirmations, L.theme, affirmation_generic)]
           IN  frames' = [frames EXCEPT ![c].locals = after, ![c].line = @ + 1]
    /\ UNCHANGED <<pureVars, uiVars, sendVars>>

\* lines 797-808: full_message, then message_parts
SplitStatement ==
    /\ \E c \in Callers :
        /\ frames[c].block = "split"
        /\ frames[c].line < LastLine("split")
        /\ LET L == Locals(c)
               after ==
                   IF frames[c].line = 0
                   THEN [L EXCEPT !.full_message = full_message(L.affirmation, L.image_message)]
                   ELSE [L EXCEPT !.message_parts =
                             PartsOf(L.full_message, L.affirmation, L.image_message)]
           IN  frames' = [frames EXCEPT ![c].locals = after, ![c].line = @ + 1]
    /\ UNCHANGED <<pureVars, uiVars, sendVars>>

\* the block of a caller is over: its frame is dropped
ReturnCaller ==
    /\ \E c \in Callers :
        /\ frames[c].block # "idle"
        /\ frames[c].line = LastLine(frames[c].block)
        /\ frames' = [frames EXCEPT ![c] = IdleFrame]
    /\ UNCHANGED <<pureVars, uiVars, sendVars>>

NextCallers ==
    \/ CallKeyWords
    \/ CallFallback
    \/ CallSplit
    \/ KeyWordsStatement
    \/ FallbackStatement
    \/ SplitStatement
    \/ ReturnCaller

(***************************************************************************)
(* The session of the Streamlit page: every action is one run of the       *)
(* script, started by a widget change or a button.                         *)
(***************************************************************************)
\* a sidebar widget changes: its callback stores the value in attribute k, then the
\* script runs
Change(k, values) ==
    /\ \E v \in values \ {session_state[k]} :
        LET changed == Set(session_state, k, v)
        IN  \E view \in ViewsOf(changed) :
                LET page == Preview(changed, view)
                IN  /\ session_state' = page.state
                    /\ shown' = page.shown
    /\ sending' = NoSending
    /\ UNCHANGED request
    /\ UNCHANGED <<pureVars, sendVars, callerVars>>

\* the theme selectbox changes: update_theme
ChangeTheme == Change("theme", PickedThemes)

\* the API key input changes: update_api_key
ChangeApiKey == Change("gemini_api_key", ApiKeys)

\* "Generate New Affirmation & Image" is pressed: the handler, then the preview
ClickGenerate ==
    /\ \E run \in Runs :
        LET done == GenerateHandler(session_state, run)
        IN  \E view \in ViewsOf(done.state) :
                LET page == Preview(done.state, view)
                IN  /\ session_state' = page.state
                    /\ shown' = done.shown \o page.shown
                    /\ request' =
                           IF session_state.gemini_api_key = ""
                           THEN request
                           ELSE [theme |-> session_state.theme, text |-> run.text,
                                 image |-> run.image]
    /\ sending' = NoSending
    /\ UNCHANGED <<pureVars, sendVars, callerVars>>

\* the script run that shows the Send button where no generation has completed
ClickSend_AlwaysShown ==
    /\ \E view \in ViewsOf(session_state), username \in Usernames, password \in Passwords,
          recipients \in Recipients, method \in Methods :
        \E result \in SendResults(method) :
            LET page == Preview(session_state, view)
                done == SendHandler(IF "affirmation" \in DOMAIN page.state
                                    THEN page.state
                                    ELSE Set(page.state, "affirmation", <<>>),
                                    username, password, recipients, method, result)
            IN  /\ session_state' = page.state
                /\ shown' = page.shown \o done.shown
                /\ sending' = send_affirmation(done.sending, view # "missing")
    /\ UNCHANGED request
    /\ UNCHANGED <<pureVars, sendVars, callerVars>>

\* "Send to Instagram" is pressed: the button is on the page only after a
\* generation (line 1549); the preview runs first, then the handler on the values
\* of the sidebar's widgets
ClickSend ==
    /\ session_state.affirmation_generated
    /\ \E view \in ViewsOf(session_state), username \in Usernames, password \in Passwords,
          recipients \in Recipients, method \in Methods :
        \E result \in SendResults(method) :
            LET page == Preview(session_state, view)
                done == SendHandler(page.state, username, password, recipients, method, result)
            IN  /\ session_state' = page.state
                /\ shown' = page.shown \o done.shown
                /\ sending' = send_affirmation(done.sending, view # "missing")
    /\ UNCHANGED request
    /\ UNCHANGED <<pureVars, sendVars, callerVars>>

Next ==
    \/ ChangeTheme
    \/ ChangeApiKey
    \/ ClickGenerate
    \/ ClickSend

Init == InitPure /\ InitUI /\ InitSend /\ InitCallers

Spec == Init /\ [][Next]_vars

\* the pure blocks called on their own, the session untouched
SpecPure == Init /\ [][NextPure]_vars

\* the Selenium sender delivering messages, one recipient after the other
SpecSend == Init /\ [][NextSend]_vars

\* a call of a sending method, from its start to its return
SpecSenders == Init /\ [][NextSenders]_vars

\* several callers in the pure blocks at once, their statements interleaved
SpecCallers == Init /\ [][NextCallers]_vars

(***************************************************************************)
(* Statements about the key-word block (checked under SpecPure).           *)
(***************************************************************************)
Extracted == call \in {"generate_image", "generate_image_with_imagen"}

\* the index of the first occurrence of w in ws
FirstAt(w, ws) == CHOOSE i \in DOMAIN ws : ws[i] = w /\ \A j \in 1..(i - 1) : ws[j] # w

\* x ranks before y: a larger count, or the same count and an earlier first occurrence
RanksBefore(x, y, ws) ==
    \/ Count(x, ws) > Count(y, ws)
    \/ Count(x, ws) = Count(y, ws) /\ FirstAt(x, ws) < FirstAt(y, ws)

\* C1: for every input text the key-word block returns exactly 2 strings, each
\* non-empty and lowercase, and the two are distinct.
C1_ExactlyTwoDistinct ==
    Extracted =>
        /\ Len(key_words) = 2
        /\ \A i \in DOMAIN key_words : key_words[i] # <<>> /\ lower(key_words[i]) = key_words[i]
        /\ key_words[1] # key_words[2]

\* C2: when the filtered token sequence holds at least two distinct tokens, the
\* result is the two distinct tokens with the highest counts, in descending order
\* of count, equal counts ordered by first occurrence in the filtered sequence.
C2_TopTwoByCountThenFirst ==
    (Extracted /\ Cardinality(Range(filtered_words)) >= 2) =>
        /\ Len(key_words) = 2
        /\ key_words[1] \in Range(filtered_words)
        /\ key_words[2] \in Range(filtered_words)
        /\ key_words[1] # key_words[2]
        /\ RanksBefore(key_words[1], key_words[2], filtered_words)
        /\ \A w \in Range(filtered_words) \ {key_words[1], key_words[2]} :
               RanksBefore(key_words[2], w, filtered_words)

\* a text of three distinct qualifying tokens whose most frequent token is not the
\* first one and whose second place is decided by first occurrence
C2_Witness ==
    /\ Extracted
    /\ Cardinality(Range(filtered_words)) >= 3
    /\ Len(key_words) = 2
    /\ key_words[1] # filtered_words[1]
    /\ Count(key_words[1], filtered_words) > Count(key_words[2], filtered_words)
    /\ \E w \in Range(filtered_words) \ {key_words[1], key_words[2]} :
           Count(w, filtered_words) = Count(key_words[2], filtered_words)

\* C3, as stated: the key words of "joy joy joy peace" are ["joy", "peace"].
C3_JoyPeace ==
    (Extracted /\ text = JoyJoyJoyPeace) =>
        key_words = << <<"j","o","y">>, <<"p","e","a","c","e">> >>

\* C3, amended: "joy" has three characters and is dropped by the length test, one
\* qualifying token is left, and the key words of "joy joy joy peace" are
\* ["peace", "positive"].
C3_PeacePositive ==
    (Extracted /\ text = JoyJoyJoyPeace) =>
        key_words = << <<"p","e","a","c","e">>, <<"p","o","s","i","t","i","v","e">> >>

C3_Witness == Extracted /\ text = JoyJoyJoyPeace /\ Len(key_words) = 2

\* C4: a text with no qualifying token (empty, or only stop words and tokens of at
\* most 3 characters) yields exactly ["positive", "vibes"], and no result is empty.
C4_NoTokenGivesPositiveVibes ==
    Extracted =>
        /\ key_words # <<>>
        /\ filtered_words = <<>> =>
               key_words = << <<"p","o","s","i","t","i","v","e">>, <<"v","i","b","e","s">> >>

\* a non-empty text all of whose tokens are dropped, a stop word among them
C4_Witness ==
    /\ Extracted
    /\ filtered_words = <<>>
    /\ \E w \in Range(findall_words(text)) : w \in stop_words_imagen
    /\ \E w \in Range(findall_words(text)) : w \notin stop_words_imagen
    /\ key_words = <<positive, vibes>>

\* C5: when exactly one qualifying token is left after filtering, the result is
\* [token, "positive"], the token first.
C5_OneTokenThenPositive ==
    (Extracted /\ Len(filtered_words) = 1) =>
        key_words = << filtered_words[1], <<"p","o","s","i","t","i","v","e">> >>

\* one qualifying token, among tokens that were dropped
C5_Witness ==
    /\ Extracted
    /\ Len(filtered_words) = 1
    /\ Len(findall_words(text)) >= 3
    /\ key_words[1] # positive

\* C6: every key word is one of the fillers "positive" / "vibes", or the lowercase
\* form of a token of the text that is no stop word and is longer than 3 characters.
C6_KeyWordsAreFillersOrQualifyingTokens ==
    Extracted =>
        \A i \in DOMAIN key_words :
            \/ key_words[i] \in { <<"p","o","s","i","t","i","v","e">>, <<"v","i","b","e","s">> }
            \/ /\ \E tok \in Range(findall_words(text)) : key_words[i] = lower(tok)
               /\ key_words[i] \notin stop_words_imagen
               /\ key_words[i] \notin stop_words_image
               /\ Len(key_words[i]) > 3

\* a text with a stop word, a short token and a capitalised token that is taken
C6_Witness ==
    /\ Extracted
    /\ \E tok \in Range(findall_words(text)) : tok \in stop_words_imagen
    /\ \E tok \in Range(findall_words(text)) : Len(tok) <= 3
    /\ \E tok \in Range(findall_words(text)) : lower(tok) # tok /\ lower(tok) \in Range(key_words)

(***************************************************************************)
(* Statements about the fallback lookup (checked under SpecPure).          *)
(***************************************************************************)
FallbackCalled == call \in {"generate_affirmation", "create_streamlit_ui"}

\* "You are capable of amazing things. Today is full of possibilities."
GenericLiteral ==
    <<"Y","o","u"," ","a","r","e"," ","c","a","p","a","b","l","e"," ","o","f"," ","a","m","a","z","i","n","g"," ","t","h","i","n","g","s","."," ",
           "T","o","d","a","y"," ","i","s"," ","f","u","l","l"," ","o","f"," ","p","o","s","s","i","b","i","l","i","t","i","e","s",".">>

\* C7: the fallback lookup gives, for each of the seven themes, that theme's
\* literal, and for any other theme the generic literal; it always gives a string,
\* and the table of generate_affirmation and the table of the UI give the same
\* string for every theme.
C7_FallbackLookup ==
    FallbackCalled =>
        /\ returned # <<>>
        /\ theme \notin Themes => returned = GenericLiteral
        /\ theme \in Themes =>
               /\ returned = default_affirmations[theme]
               /\ returned = default_affirmations_ui[theme]
               /\ returned # GenericLiteral
        /\ theme = "gratitude" => returned = affirmation_gratitude

\* the UI's table is asked for gratitude and gives the string of the other table
C7_Witness ==
    /\ call = "create_streamlit_ui"
    /\ theme = "gratitude"
    /\ returned = affirmation_gratitude

(***************************************************************************)
(* Statements about a generation request (checked under Spec).             *)
(***************************************************************************)
Generated == session_state.affirmation_generated

TextGenFailed == request.text.outcome \in {"import_error", "generate_error", "text_error"}

\* the messages on the page are those of a script run that handled a request
RequestShown == SuccessComplete \in Range(shown) \/ ErrorGenerating \in Range(shown)

FallbackWarningShown ==
    WarningAffirmation \in Range(shown) \/ WarningDefaultContent \in Range(shown)

\* C8: whenever the text generator fails (import or configuration, the model call,
\* reading the response), the affirmation stored for the request is exactly the
\* fallback of the requested theme.
C8_FailedTextGenGivesFallback ==
    (Generated /\ TextGenFailed) =>
        /\ "affirmation" \in DOMAIN session_state
        /\ session_state.affirmation = default_affirmations_get(request.theme)

\* generate_affirmation raised for a theme other than the default one, and the UI's
\* own table gave the fallback
C8_Witness ==
    /\ Generated
    /\ request.text.outcome = "import_error"
    /\ request.theme = "gratitude"
    /\ session_state.affirmation = affirmation_gratitude_ui

\* C9, as stated: the result tells the caller whether the fallback was substituted.
\* The result of generate_affirmation is the text alone, so the indication it
\* carries is whether the text is the fallback of the theme.
C9_ResultTellsFallback ==
    Generated =>
        ((session_state.affirmation = default_affirmations_get(request.theme)) <=> TextGenFailed)

\* C9, amended: the result is the text alone; the substitution is reported by a
\* warning on the page ("Error generating affirmation" or "Using default content
\* due to API error"), shown exactly when the fallback was substituted.
C9_WarningIffFallback ==
    RequestShown => (FallbackWarningShown <=> TextGenFailed)

\* reading the response failed after the success message: both messages are shown
C9_Witness ==
    /\ RequestShown
    /\ request.text.outcome = "text_error"
    /\ SuccessAffirmation \in Range(shown)
    /\ WarningAffirmation \in Range(shown)

\* C10: the text generate_affirmation returns holds only alphanumeric characters,
\* whitespace and . , ! ? on every path, generated or fallback.
C10_OnlyKeptCharacters ==
    (Generated /\ request.text.outcome # "import_error") =>
        \A i \in DOMAIN session_state.affirmation :
            session_state.affirmation[i] \in
                Letters \cup DigitChars \cup {" ", "\t", "\n"} \cup {".", ",", "!", "?"}

(***************************************************************************)
(* Statements about the outcome of a generation request and about the      *)
(* order of generation and sending (checked under Spec).                   *)
(***************************************************************************)
\* a generation request was made with a non-empty API key
RequestMade == request.text.outcome # "-"

TextGenSucceeded == request.text.outcome = "ok"

ImageGenSucceeded == request.image.imagen = "ok" \/ request.image.alt = "ok"

\* C11: whatever the text generator and the image run did, a generation request
\* made with a non-empty API key has completed: no exception ended the script run,
\* affirmation_generated is True and an affirmation text is stored.
C11_RequestAlwaysCompletes ==
    RequestMade =>
        /\ "exception" \notin Range(shown)
        /\ Generated
        /\ "affirmation" \in DOMAIN session_state
        /\ "image_path" \in DOMAIN session_state

\* the worst case: the text generator could not be imported and the default image
\* could not be downloaded
C11_Witness ==
    /\ RequestMade
    /\ request.text.outcome = "import_error"
    /\ request.image.default = "error"
    /\ Generated
    /\ session_state.affirmation = default_affirmations_ui_get(request.theme)
    /\ session_state.image_path = None

\* C13: when the text generator and the image generator both succeeded, the stored
\* affirmation is the sanitized generated text and the stored image path is the
\* file the image generator produced, not the default image.
C13_BothSucceedStoresGenerated ==
    (RequestMade /\ TextGenSucceeded /\ ImageGenSucceeded) =>
        /\ session_state.affirmation = clean(strip(request.text.response))
        /\ session_state.image_path =
               IF request.image.imagen = "ok" THEN "imagen.png" ELSE "alternative.png"

\* a generated text the sanitizing changed, with the image of the first Imagen call
C13_Witness ==
    /\ RequestMade /\ TextGenSucceeded
    /\ request.image.imagen = "ok"
    /\ session_state.affirmation # request.text.response
    /\ session_state.affirmation # default_affirmations_get(request.theme)
    /\ session_state.image_path = "imagen.png"
    /\ session_state.image_url # None

\* C20: affirmation_generated starts False and no script run resets it; whenever
\* it is True an affirmation text is stored; and a script run starts a sending
\* method only from a session state in which it is True.
C20_SendingOnlyAfterGeneration ==
    /\ ~Generated
    /\ [](Generated => "affirmation" \in DOMAIN session_state)
    /\ [][ /\ Generated => Generated'
           /\ sending'.method # "-" => Generated ]_vars

\* a sending was started with the stored affirmation
C20_Witness ==
    /\ Generated
    /\ sending.method = "Instabot"
    /\ sending.affirmation = session_state.affirmation

(***************************************************************************)
(* Statements about the parts of a message and their delivery (checked     *)
(* under SpecSend).                                                        *)
(***************************************************************************)
\* the sender has composed the message of the recipient
Composed == step # "idle"

\* the parts joined with the separator sep between two of them
RECURSIVE JoinParts(_, _)
JoinParts(parts, sep) ==
    IF parts = <<>> THEN <<>>
    ELSE IF Len(parts) = 1 THEN parts[1]
    ELSE parts[1] \o sep \o JoinParts(Tail(parts), sep)

\* a string without whitespace inside: one token
SingleToken(part) == \A i \in DOMAIN part : ~IsSpace(part[i])

\* C14: when the full message (the affirmation and the image text) is at most 500
\* characters long, message_parts is a single part equal to the whole message.
C14_ShortMessageIsOnePart ==
    (Composed /\ Len(full_message(affirmation_text, image_message)) <= MaxMessageLen) =>
        message_parts = << full_message(affirmation_text, image_message) >>

\* a message of exactly 500 characters with an image text in it
C14_Witness ==
    /\ Composed
    /\ image_message # <<>>
    /\ Len(full_message(affirmation_text, image_message)) = MaxMessageLen
    /\ Len(message_parts) = 1

\* C15, as stated: when the message is longer than 500 characters, no part is
\* longer than 500 characters unless it is a single token.
C15_NoPartOverBudget ==
    (Composed /\ Len(full_message(affirmation_text, image_message)) > MaxMessageLen) =>
        \A k \in DOMAIN message_parts :
            Len(message_parts[k]) <= MaxMessageLen \/ SingleToken(message_parts[k])

\* C16, as stated: joining the parts with a single space gives the message.
C16_JoinedWithSpace ==
    Composed =>
        JoinParts(message_parts, <<" ">>) = full_message(affirmation_text, image_message)

\* C16, amended: joining the parts with the two line feeds that separate the
\* affirmation from the image text gives the message.
C16_JoinedWithLineFeeds ==
    Composed =>
        JoinParts(message_parts, <<"\n", "\n">>) = full_message(affirmation_text, image_message)

\* a message that was split into the affirmation and the image text
C16_Witness ==
    /\ Composed
    /\ Len(message_parts) = 2
    /\ message_parts[1] = affirmation_text
    /\ message_parts[2] # image_message
    /\ Len(full_message(affirmation_text, image_message)) = MaxMessageLen + 1

\* the entries of the delivery that are runs of a send method
IsSend(e) == e.event \in Range(send_methods)

\* the delivery of part k is over: it was put into the input and a send method
\* went through, or every send method raised
Finished(k) ==
    /\ \E i \in DOMAIN delivery : delivery[i].part = k /\ ~IsSend(delivery[i])
    /\ \/ \E i \in DOMAIN delivery : delivery[i].part = k /\ IsSend(delivery[i]) /\ delivery[i].ok
       \/ Cardinality({i \in DOMAIN delivery : delivery[i].part = k /\ IsSend(delivery[i])})
              = Len(send_methods)

\* C17: the parts of a message are delivered in the order of message_parts: what
\* is done for a part comes after everything done for the parts before it, whose
\* deliveries are over by then, and no part is sent more than once.
C17_PartsInOrderOnce ==
    /\ \A i, j \in DOMAIN delivery : i < j => delivery[i].part <= delivery[j].part
    /\ \A i \in DOMAIN delivery : \A k \in 0..(delivery[i].part - 1) : Finished(k)
    /\ \A i, j \in DOMAIN delivery :
           (i # j /\ IsSend(delivery[i]) /\ IsSend(delivery[j])
                 /\ delivery[i].ok /\ delivery[j].ok) =>
               delivery[i].part # delivery[j].part
    /\ \A i, j \in DOMAIN delivery :
           (i # j /\ ~IsSend(delivery[i]) /\ ~IsSend(delivery[j])) =>
               delivery[i].part # delivery[j].part

\* two parts, the first sent by the second send method after the first raised
C17_Witness ==
    /\ step = "done"
    /\ Len(message_parts) = 2
    /\ Len(delivery) = 5
    /\ delivery[2].part = 0 /\ ~delivery[2].ok
    /\ delivery[3].part = 0 /\ delivery[3].ok
    /\ delivery[5].part = 1 /\ delivery[5].ok

(***************************************************************************)
(* Statements about a call of generate_image_with_imagen and about the two *)
(* copies of the key-word block (checked under SpecPure).                  *)
(***************************************************************************)
\* a call of the whole of generate_image_with_imagen has returned or raised
ImagenCalled == call = "generate_image_with_imagen" /\ image_run # NoImageRun

\* what get_default_image gave in the call
DefaultOrNone == IF image_run.default = "ok" THEN "default.jpg" ELSE None

\* C12, as stated: after a failure at any stage (the prompt enhancement, the first
\* Imagen call, the validation of its image, the alternative call) the function
\* does not raise and returns the default image, or None when the default image
\* could not be obtained.
C12_AnyFailureGivesDefault ==
    (ImagenCalled /\ (\/ image_run.enhance = "raise"
                      \/ image_run.imagen \in StageFailures
                      \/ image_run.alt \in StageFailures)) =>
        /\ ~returned.raised
        /\ ~returned.tuple
        /\ returned.path = DefaultOrNone

\* C12, amended: the function never raises. After a failure of the prompt
\* enhancement, or of both the first Imagen call and the alternative call (a call
\* or the validation of its image), it returns the default image, or None when the
\* default image could not be obtained; after a failure of the first Imagen call
\* alone it returns the validated image of the alternative call.
C12_FailureGivesAlternativeOrDefault ==
    ImagenCalled =>
        /\ ~returned.raised
        /\ (image_run.enhance = "raise" \/ image_run.alt \in StageFailures) =>
               (~returned.tuple /\ returned.path = DefaultOrNone)
        /\ (image_run.imagen \in StageFailures /\ image_run.alt = "ok") =>
               (returned.tuple /\ returned.path = "alternative.png")

\* the image of the first call is invalid, the alternative call fails and the
\* default image is answered with a status other than 200
C12_Witness ==
    /\ ImagenCalled
    /\ image_run.imagen = "invalid_image"
    /\ image_run.alt = "call_error"
    /\ image_run.default = "non_200"
    /\ ~returned.raised
    /\ returned.path = None

\* C18: the key words are a function of the text alone: whichever of the two
\* copies of the key-word block ran, its key words are those generate_image gives
\* on the text and those generate_image_with_imagen gives on it.
C18_SameKeyWordsFromBothBlocks ==
    Extracted =>
        /\ key_words = key_words_image(text)
        /\ key_words = key_words_imagen(text)

\* generate_image ran on a text with a stop word and with qualifying tokens to rank
C18_Witness ==
    /\ call = "generate_image"
    /\ <<"y","o","u","r">> \in Range(findall_words(lower(text)))
    /\ Cardinality(Range(filtered_words)) >= 2
    /\ key_words = key_words_imagen(text)

(***************************************************************************)
(* Statement about concurrent callers (checked under SpecCallers).         *)
(***************************************************************************)
\* the block of caller c has run to its end
Done(c) == frames[c].block # "idle" /\ frames[c].line = LastLine(frames[c].block)

\* C19: whatever the interleaving of the statements of concurrent callers, a call
\* of the key-word block, of the fallback lookup or of the splitting ends with the
\* result it gives when it runs alone on its arguments.
C19_ResultAsWhenRunAlone ==
    \A c \in Callers :
        Done(c) =>
            /\ frames[c].block = "key_words" =>
                   frames[c].locals.key_words = key_words_imagen(frames[c].args.affirmation)
            /\ frames[c].block = "fallback" =>
                   frames[c].locals.returned = default_affirmations_get(frames[c].args.theme)
            /\ frames[c].block = "split" =>
                   frames[c].locals.message_parts =
                       MessageParts(frames[c].args.affirmation, frames[c].args.image_message)

\* a caller ended the key-word block while another was between two statements of
\* the same block on another text
C19_Witness ==
    /\ frames[1].block = "key_words" /\ frames[1].line = 1
    /\ frames[2].block = "key_words" /\ Done(2)
    /\ frames[1].args.affirmation # frames[2].args.affirmation
    /\ frames[2].locals.key_words # <<positive, vibes>>

(***************************************************************************)
(* The Send of a script run whose preview gave a warning.                  *)
(***************************************************************************)
SendStarted == sending.method # "-"

\* C21: when the preview of the run reports that the image generation failed and
\* only the affirmation text will be sent, the method the Send calls composes for
\* every recipient exactly the affirmation: no image URL, no placeholder, no photo
C21_TextOnlyAfterImageFailedWarning ==
    (SendStarted /\ WarningImageFailed \in Range(shown)) =>
        /\ sending.full_message = sending.affirmation
        /\ ~sending.send_photo

\* C22: when the preview of the run warns that the image cannot be displayed and
\* that a new one will be generated when sending, the Send passes a generated
\* image to the method
C22_NewImageWhenSending ==
    (SendStarted /\ WarningCannotDisplay \in Range(shown)) => sending.image_path # None

(***************************************************************************)
(* A call of a sending method.                                             *)
(***************************************************************************)
SeleniumCall == session \in {"started", "get_raised", "login_raised"}

SessionStarted == session \in {"started", "bot_started"}

Returned == step = "returned"

\* the turn report[k] is the turn of a recipient with a later recipient in the list
HasLaterRecipient(k) ==
    \E j \in DOMAIN users_to_message : j > k /\ users_to_message[j] # ""

AllSent(turn) == turn.parts > 0 /\ Cardinality(turn.sent) = turn.parts

\* C23: a sending method returns success only if, for every non-empty recipient,
\* every part of the message was sent without error
C23_SuccessOnlyIfEverySendCompleted ==
    (Returned /\ sender_result.success) =>
        \A k \in DOMAIN users_to_message :
            users_to_message[k] # "" => (k <= Len(report) /\ AllSent(report[k]))

\* C24: for a recipient whose conversation was verified and whose message input was
\* located by one of the XPath selectors, every part of the message is put into the
\* input and sent
C24_XPathInputIsTypedAndSent ==
    \A k \in DOMAIN report :
        (SeleniumCall /\ report[k].verified # "-" /\ report[k].message_input = "xpath") =>
            /\ report[k].parts > 0
            /\ report[k].typed = report[k].parts

\* C25: nothing is typed or sent to a recipient unless verify_dm_conversation
\* returned True for the recipient, at the first check or at the final check after
\* the navigation methods; a recipient whose final check fails is left without
\* anything typed or sent
C25_TypedOnlyInVerifiedConversation ==
    SeleniumCall =>
        /\ step \in {"find", "compose", "input", "send", "sent", "done", "delay", "abandoned"}
               => verified \in {"first", "final"}
        /\ delivery # <<>> => verified \in {"first", "final"}
        /\ \A k \in DOMAIN report :
               /\ (report[k].typed > 0 \/ report[k].sent # {})
                      => report[k].verified \in {"first", "final"}
               /\ report[k].outcome = "unverified"
                      => (report[k].typed = 0 /\ report[k].sent = {}
                          /\ report[k].message_input = "-")

\* a recipient's final check failed, and a later recipient, verified at the final
\* check, has a part of the message in the input
C25_Witness ==
    /\ SeleniumCall
    /\ \E k \in DOMAIN report : report[k].outcome = "unverified"
    /\ verified = "final"
    /\ delivery # <<>>

\* C26: "Successfully sent all message parts" is logged only if every part was sent,
\* and "Some message parts may not have been sent" if a part was not
C26_AllPartsLogOnlyIfAllSent ==
    \A k \in DOMAIN report :
        /\ report[k].log = "Successfully sent all message parts" => AllSent(report[k])
        /\ (report[k].log # "-" /\ ~AllSent(report[k]))
               => report[k].log = "Some message parts may not have been sent"

\* C27: the rate-limit delay follows the turn of a recipient exactly when a later
\* recipient is in the list, in both sending methods
C27_DelayExactlyBetweenRecipients ==
    \A k \in DOMAIN report :
        report[k].user # "" => (report[k].delay <=> HasLaterRecipient(k))

\* C28: the entries of the list get their turns one at a time in list order, and
\* when the call returns after a started session every entry has had its turn, the
\* non-empty ones attempted, whatever was raised in the turns before
C28_EveryRecipientGetsItsTurn ==
    /\ Len(report) = user_index
    /\ \A k \in DOMAIN report :
           /\ k <= Len(users_to_message)
           /\ report[k].user = users_to_message[k]
           /\ report[k].position = k - 1
           /\ report[k].user # "" => report[k].outcome # "empty"
    /\ (Returned /\ SessionStarted) => Len(report) = Len(users_to_message)

\* the call returned, a recipient's turn ended in an exception and a later
\* recipient got every part of the message
C28_Witness ==
    /\ Returned
    /\ \E k, j \in DOMAIN report :
           /\ k < j
           /\ report[k].outcome = "error"
           /\ report[j].outcome = "handled"
           /\ AllSent(report[j])

\* C29: driver.quit() is invoked exactly once before the Selenium sender returns, on
\* the success path and on the error paths, and never earlier; an error of quit
\* itself changes nothing of the return
C29_QuitExactlyOnce ==
    SeleniumCall =>
        /\ Returned => (Len(quits) = 1 /\ sender_result # NoResult)
        /\ ~Returned => quits = <<>>

\* the login raised, quit raised too, and the sender returned its error
C29_Witness ==
    /\ Returned
    /\ session = "login_raised"
    /\ quits = <<"raised">>
    /\ sender_result = [success |-> FALSE, message |-> ErrorSeleniumSending]

\* C30: when opening Instagram or the login raises, no recipient gets a turn,
\* nothing is typed or sent, and the sender returns (False, "Error during message
\* sending: ...") after the browser was closed
C30_LoginErrorSendsNothing ==
    session \in {"get_raised", "login_raised"} =>
        /\ report = <<>>
        /\ delivery = <<>>
        /\ user_index = 0
        /\ step \in {"finally", "returned"}
        /\ sender_result = [success |-> FALSE, message |-> ErrorSeleniumSending]
        /\ Returned => Len(quits) = 1

\* opening Instagram raised, the browser was closed and the sender returned
C30_Witness ==
    /\ Returned
    /\ session = "get_raised"
    /\ quits = <<"quit">>
    /\ report = <<>>

(***************************************************************************)
(* The browser initialisation and the dialogs after the login.             *)
(***************************************************************************)
BothBrowsersFailed ==
    browsers = <<[browser |-> "Safari", ok |-> FALSE], [browser |-> "Chrome", ok |-> FALSE]>>

\* C31: Chrome is initialised only after the initialisation of Safari failed; when
\* both fail the Selenium sender returns (False, "Failed to initialize any browser:
\* ...") and Instagram is not opened, no login made and no recipient given a turn
C31_ChromeOnlyAfterSafariFailed ==
    /\ \A k \in DOMAIN browsers :
           browsers[k].browser = "Chrome" =>
               (k = 2 /\ browsers[1] = [browser |-> "Safari", ok |-> FALSE])
    /\ BothBrowsersFailed =>
           /\ step = "returned"
           /\ sender_result = [success |-> FALSE, message |-> ErrorSeleniumBrowser]
           /\ driver = None
           /\ session = "-"
           /\ users_to_message = <<>>
           /\ report = <<>>
           /\ delivery = <<>>

\* Safari failed, Chrome failed, and the sender returned
C31_Witness ==
    /\ BothBrowsersFailed
    /\ step = "returned"
    /\ sender_result.message = ErrorSeleniumBrowser

\* C32: the loop over the dialogs after the login has at most max_dialogs turns and
\* clicks at most max_dialogs buttons; a turn that finds no button, or in which an
\* exception is raised, is its last; the loop is over once such a turn happened or
\* max_dialogs buttons were clicked
C32_DialogLoopStops ==
    /\ Len(dialog_events) <= max_dialogs
    /\ dialogs_handled <= max_dialogs
    /\ \A k \in DOMAIN dialog_events :
           dialog_events[k] # "clicked" => k = Len(dialog_events)
    /\ step = "dialogs" =>
           (dialogs_handled = Len(dialog_events) /\ dialogs_handled < max_dialogs)
    /\ step = "dialogs_done" =>
           /\ dialog_events # <<>>
           /\ \/ dialog_events[Len(dialog_events)] # "clicked"
              \/ dialogs_handled = max_dialogs

\* the loop is over after a click in each of its max_dialogs turns
C32_Witness ==
    /\ step = "dialogs_done"
    /\ dialogs_handled = max_dialogs
    /\ session = "started"

====
